---------------------------- MODULE Spec2Model ----------------------------
(***************************************************************************)
(* Model of the expo-history-viewer application (src/unnamed/part_000):    *)
(* the payload merger, the import paths of App, the association pass of    *)
(* the summary computation and the raster segmenter.                       *)
(*                                                                         *)
(* JavaScript strings are sequences of one-character strings, so that      *)
(* trim(), template-literal concatenation and comparison are computed and  *)
(* not assumed.  `undefined` string fields are the value Undefined, an     *)
(* `undefined` number is NoNum.  A boolean field f that the code only ever *)
(* reads as `f === true` is a BOOLEAN (FALSE stands for false and absent). *)
(***************************************************************************)
EXTENDS Integers, Sequences, FiniteSets, TLC

VARIABLES
    data,            \* App: useState<TicketPayload | null>
    error,           \* App: useState<string>, the message shown to the user
    rawInput,        \* App: the text of the paste area
    isLoadingFile,   \* App: useState<boolean>
    readers,         \* FileReaders started and not yet fired: file |-> how many
    lastImport,      \* bookkeeping: outcome of the latest import attempt
    includedTicketMap,  \* App: useState<Record<string, boolean>>
    isSavingImage,   \* ShareableSummaryCanvas: useState(false)
    isSharing,       \* ShareableSummaryCanvas: useState(false)
    actionMessage,   \* ShareableSummaryCanvas: useState('')
    canUseWebShare,  \* ShareableSummaryCanvas: the memo over navigator.share/canShare
    instance,        \* which mount of ShareableSummaryCanvas is on screen (0: none yet)
    ops,             \* save/share operations started and not yet finished
    pc,              \* position of the function under check (pure-function specs)
    arg,             \* its input
    res              \* its output / accumulator

vars == <<data, error, rawInput, isLoadingFile, readers, lastImport, includedTicketMap,
          isSavingImage, isSharing, actionMessage, canUseWebShare, instance, ops,
          pc, arg, res>>

appVars == <<data, error, rawInput, isLoadingFile, readers, lastImport, includedTicketMap>>

canvasVars == <<isSavingImage, isSharing, actionMessage, canUseWebShare, instance, ops>>

-----------------------------------------------------------------------------
(* Strings *)

Undefined == <<"undefined">>

NoNum == -1

Str(s) == s # Undefined

\* the template literal `${a}${b}`
Cat(a, b) == a \o b

IsSpace(c) == c \in {" ", "\t", "\n"}

RECURSIVE TrimStart(_)
TrimStart(s) ==
    IF s = <<>> THEN <<>>
    ELSE IF IsSpace(Head(s)) THEN TrimStart(Tail(s)) ELSE s

RECURSIVE TrimEnd(_)
TrimEnd(s) ==
    IF s = <<>> THEN <<>>
    ELSE IF IsSpace(s[Len(s)]) THEN TrimEnd(SubSeq(s, 1, Len(s) - 1)) ELSE s

\* String.prototype.trim
Trim(s) == TrimEnd(TrimStart(s))

\* ticket.ticket_id?.trim() : undefined stays undefined
OptTrim(s) == IF Str(s) THEN Trim(s) ELSE Undefined

\* JavaScript truthiness of a string|undefined value
Truthy(s) == Str(s) /\ s # <<>>

Digits == <<"0", "1", "2", "3", "4", "5", "6", "7", "8", "9">>

\* String(n) of an integer n >= 0
RECURSIVE NumStr(_)
NumStr(n) == IF n < 10 THEN <<Digits[n + 1]>> ELSE NumStr(n \div 10) \o <<Digits[(n % 10) + 1]>>

-----------------------------------------------------------------------------
(* Payloads *)

Null == [null |-> TRUE, list |-> <<>>, is_sample |-> FALSE]

Payload(list, sample) == [null |-> FALSE, list |-> list, is_sample |-> sample]

Ticket(id, tid, sample, name, scheds, events) ==
    [id |-> id, ticket_id |-> tid, is_sample |-> sample, item_name |-> name,
     schedules |-> scheds, event_schedules |-> events]

-----------------------------------------------------------------------------
(* mergeTicketPayloads *)

\* a plausible slip: the duplicate check is dropped
addTicketNoDedup(st, ticket, isNotSample) ==
    IF isNotSample /\ ticket.is_sample = TRUE THEN st
    ELSE [st EXCEPT !.merged = Append(@, ticket)]

\* a plausible slip: the sample filter is dropped
addTicketKeepSample(st, ticket, isNotSample) ==
    LET ticketId == OptTrim(ticket.ticket_id) IN
    IF Truthy(ticketId) /\ ticketId \in st.seenIds THEN st
    ELSE [merged |-> Append(st.merged, ticket),
          seenIds |-> IF Truthy(ticketId) THEN st.seenIds \cup {ticketId}
                      ELSE st.seenIds]

\* a plausible slip: the id is compared untrimmed
addTicketNoTrim(st, ticket, isNotSample) ==
    LET ticketId == ticket.ticket_id IN
    IF isNotSample /\ ticket.is_sample = TRUE THEN st
    ELSE IF Truthy(ticketId) /\ ticketId \in st.seenIds THEN st
    ELSE [merged |-> Append(st.merged, ticket),
          seenIds |-> IF Truthy(ticketId) THEN st.seenIds \cup {ticketId}
                      ELSE st.seenIds]

\* the closure addTicket; st is the pair of locals (merged, seenIds)
addTicket(st, ticket, isNotSample) ==
    LET ticketId == OptTrim(ticket.ticket_id) IN
    IF isNotSample /\ ticket.is_sample = TRUE THEN st
    ELSE IF Truthy(ticketId) /\ ticketId \in st.seenIds THEN st
    ELSE [merged |-> Append(st.merged, ticket),
          seenIds |-> IF Truthy(ticketId) THEN st.seenIds \cup {ticketId}
                      ELSE st.seenIds]

\* list.forEach(addTicket)
RECURSIVE forEachAddTicket(_, _, _)
forEachAddTicket(st, list, isNotSample) ==
    IF list = <<>> THEN st
    ELSE forEachAddTicket(addTicket(st, Head(list), isNotSample), Tail(list), isNotSample)

\* a plausible slip: the incoming tickets are processed before the existing ones
mergeIncomingFirst(existing, incoming) ==
    LET isNotSample == incoming.is_sample # TRUE
        st0 == [merged |-> <<>>, seenIds |-> {}]
        st1 == forEachAddTicket(st0, incoming.list, isNotSample)
        st2 == IF ~existing.null THEN forEachAddTicket(st1, existing.list, isNotSample)
               ELSE st1
    IN  Payload(st2.merged, FALSE)

mergeTicketPayloads(existing, incoming) ==
    LET isNotSample == incoming.is_sample # TRUE
        st0 == [merged |-> <<>>, seenIds |-> {}]
        st1 == IF ~existing.null THEN forEachAddTicket(st0, existing.list, isNotSample)
               ELSE st0
        st2 == forEachAddTicket(st1, incoming.list, isNotSample)
    IN  Payload(st2.merged, FALSE)   \* `{ list: merged }`: no is_sample marker

-----------------------------------------------------------------------------
(* Input texts.  A text is a sequence of lexical tokens:                    *)
(*   "ws"     one whitespace character                                      *)
(*   "{list"  the payload-opening marker {"list"  (it opens a brace)        *)
(*   "body"   the rest of the payload object up to its closing brace, with  *)
(*            balanced braces inside; `list` and `is_sample` of the text    *)
(*            record say what it holds                                      *)
(*   "{" "}"  a brace                                                       *)
(*   "unauth" the member "message":"Unauthorized"                           *)
(*   "x"      any other text                                                *)

Text(chars, list, sample) == [chars |-> chars, list |-> list, is_sample |-> sample]

EmptyText == Text(<<>>, <<>>, FALSE)

IsWs(c) == c = "ws"

RECURSIVE trimStart(_)
trimStart(cs) ==
    IF cs = <<>> THEN <<>> ELSE IF IsWs(Head(cs)) THEN trimStart(Tail(cs)) ELSE cs

RECURSIVE trimEnd(_)
trimEnd(cs) ==
    IF cs = <<>> THEN <<>>
    ELSE IF IsWs(cs[Len(cs)]) THEN trimEnd(SubSeq(cs, 1, Len(cs) - 1)) ELSE cs

\* rawText.trim()
trim(cs) == trimEnd(trimStart(cs))

RECURSIVE dropWs(_)
dropWs(cs) ==
    IF cs = <<>> THEN <<>>
    ELSE IF IsWs(Head(cs)) THEN dropWs(Tail(cs)) ELSE <<Head(cs)>> \o dropWs(Tail(cs))

NoPayload == [ok |-> FALSE, payload |-> Null]

\* JSON.parse followed by isTicketPayload: only an object with a list array
\* (JSON allows whitespace between its tokens); anything else gives null
tryParseTickets(cs, text) ==
    IF dropWs(cs) = <<"{list", "body", "}">>
    THEN [ok |-> TRUE, payload |-> Payload(text.list, text.is_sample)]
    ELSE NoPayload

\* cleaned.indexOf('{"list"'), 0 when absent
RECURSIVE indexOfMarker(_, _)
indexOfMarker(cs, from) ==
    IF from > Len(cs) THEN 0
    ELSE IF cs[from] = "{list" THEN from ELSE indexOfMarker(cs, from + 1)

\* the depth-counting loop: index of the brace that closes the marker, 0 if none
RECURSIVE closingIndex(_, _, _)
closingIndex(cs, index, depth) ==
    IF index > Len(cs) THEN 0
    ELSE IF cs[index] \in {"{list", "{"} THEN closingIndex(cs, index + 1, depth + 1)
    ELSE IF cs[index] = "}"
         THEN IF depth - 1 = 0 THEN index ELSE closingIndex(cs, index + 1, depth - 1)
    ELSE closingIndex(cs, index + 1, depth)

NoSlice == <<"null">>

\* extractEmbeddedTicketJson: the slice from the marker to its closing brace
extractEmbeddedTicketJson(cs) ==
    LET startIndex == indexOfMarker(cs, 1) IN
    IF startIndex = 0 THEN NoSlice
    ELSE LET close == closingIndex(cs, startIndex, 0) IN
         IF close = 0 THEN NoSlice ELSE SubSeq(cs, startIndex, close)

MsgEmpty == "JSON is empty"                        \* 'JSONが空です。'
MsgUnauthorized == "not logged in to My Ticket"    \* 'マイチケットにログインできていません。...'
MsgParseFailed == "failed to parse the JSON"       \* 'JSONの解析に失敗しました。...'
MsgArchiveRead == "failed to read the WebArchive"  \* 'WebArchiveファイルの読み込みに失敗しました。'
MsgArchiveNoJson == "no ticket JSON in the WebArchive"  \* 'WebArchive内にチケットJSONが見つかりませんでした。'
MsgFileRead == "failed to read the file"           \* 'ファイルの読み込みに失敗しました。...'

Thrown(msg) == [ok |-> FALSE, payload |-> Null, message |-> msg]

Returned(payload) == [ok |-> TRUE, payload |-> payload, message |-> ""]

embeddedFallback(text) ==
    LET embedded == extractEmbeddedTicketJson(text.chars) IN
    IF embedded # NoSlice THEN tryParseTickets(embedded, text) ELSE NoPayload

\* parseTicketJson: the payload returned or the Error thrown
parseTicketJson(text) ==
    LET trimmed == trim(text.chars) IN
    IF trimmed = <<>>
    THEN IF embeddedFallback(text).ok THEN Returned(embeddedFallback(text).payload)
         ELSE Thrown(MsgEmpty)
    ELSE IF \E i \in DOMAIN trimmed : trimmed[i] = "unauth" THEN Thrown(MsgUnauthorized)
    ELSE IF tryParseTickets(trimmed, text).ok
         THEN Returned(tryParseTickets(trimmed, text).payload)
    ELSE IF embeddedFallback(text).ok THEN Returned(embeddedFallback(text).payload)
    ELSE Thrown(MsgParseFailed)

\* JSON.stringify(parsed, null, 2)
stringify(payload) == Text(<<"{list", "body", "}">>, payload.list, payload.is_sample)

-----------------------------------------------------------------------------
(* Inputs of the pure-function specifications *)

MaxList == 2

RECURSIVE SeqsUpTo(_, _)
SeqsUpTo(S, n) ==
    IF n = 0 THEN {<<>>}
    ELSE LET shorter == SeqsUpTo(S, n - 1)
         IN  shorter \cup {Append(q, x) : q \in {r \in shorter : Len(r) = n - 1}, x \in S}

\* id-less, blank-id, same-id (two contents, one a sample), trim-equal-id and
\* distinct-id tickets
MergeTickets ==
    { Ticket(NoNum, Undefined, FALSE, "x", <<>>, <<>>),
      Ticket(NoNum, <<" ">>, FALSE, "x", <<>>, <<>>),
      Ticket(NoNum, <<"a">>, FALSE, "x", <<>>, <<>>),
      Ticket(NoNum, <<"a">>, FALSE, "y", <<>>, <<>>),
      Ticket(NoNum, <<"a">>, TRUE, "x", <<>>, <<>>),
      Ticket(NoNum, <<"a", " ">>, FALSE, "x", <<>>, <<>>),
      Ticket(NoNum, <<"b">>, FALSE, "x", <<>>, <<>>) }

MergeLists == SeqsUpTo(MergeTickets, MaxList)

-----------------------------------------------------------------------------
(* App: the import paths *)

MaxData == 3        \* imports are accepted while data.list stays this short
MaxReaders == 2     \* file reads in flight at once

TicketA == Ticket(NoNum, <<"a">>, FALSE, "x", <<>>, <<>>)
TicketA2 == Ticket(NoNum, <<"a", " ">>, FALSE, "y", <<>>, <<>>)
TicketB == Ticket(NoNum, <<"b">>, FALSE, "x", <<>>, <<>>)
TicketNoId == Ticket(NoNum, Undefined, FALSE, "x", <<>>, <<>>)
SampleA == Ticket(NoNum, <<"a">>, TRUE, "s", <<>>, <<>>)
SampleS == Ticket(NoNum, <<"s">>, TRUE, "s", <<>>, <<>>)

\* ../sample/sample.json: a payload marked is_sample whose tickets are marked too
sampleTicketPayload == Payload(<<SampleA, SampleS>>, TRUE)

PasteTexts ==
    { Text(<<"ws">>, <<>>, FALSE),
      Text(<<"{", "unauth", "}">>, <<>>, FALSE),
      Text(<<"x", "{list", "body">>, <<TicketB>>, FALSE),
      Text(<<"{list", "body", "}">>, <<TicketA>>, FALSE),
      Text(<<"ws", "{list", "ws", "body", "}", "ws">>, <<TicketA2, TicketB>>, FALSE),
      Text(<<"x", "{list", "body", "}", "x">>, <<TicketNoId>>, FALSE) }

FileTexts ==
    { Text(<<"x", "x">>, <<>>, FALSE),
      Text(<<"x", "{list", "body", "x">>, <<TicketA>>, FALSE),
      Text(<<"{list", "body", "}">>, <<TicketA2, TicketB>>, FALSE),
      Text(<<"x", "{", "{list", "body", "}", "}">>, <<TicketA>>, FALSE) }

Files == [isWebArchive : BOOLEAN, text : FileTexts]

Fits(text) == Len(data.list) + Len(text.list) <= MaxData

RECURSIVE Total(_, _)
Total(f, S) ==
    IF S = {} THEN 0
    ELSE LET x == CHOOSE y \in S : TRUE IN f[x] + Total(f, S \ {x})

NoReaders == [file \in Files |-> 0]

InFlight == Total(readers, Files)

\* the Record {}
EmptyMap == [key \in {} |-> TRUE]

\* getTicketKey(ticket, index)
getTicketKey(ticket, index) ==
    IF ticket.id # NoNum THEN Cat(<<"i", "d", "-">>, NumStr(ticket.id))
    ELSE IF Truthy(ticket.ticket_id) THEN Cat(<<"t", "i", "c", "k", "e", "t", "-">>, ticket.ticket_id)
    ELSE Cat(<<"i", "n", "d", "e", "x", "-">>, NumStr(index))

\* the keys of the tickets of a payload, by position (0-based index in the code)
ticketKeys(payload) == [n \in DOMAIN payload.list |-> getTicketKey(payload.list[n], n - 1)]

\* the effect on [data] (lines 1649-1662): the map rebuilt over the keys of
\* the new data, a key keeping its value, a new key starting true
includedEffect(newData, previous) ==
    IF newData.null THEN EmptyMap
    ELSE [key \in {ticketKeys(newData)[n] : n \in DOMAIN newData.list} |->
             IF key \in DOMAIN previous THEN previous[key] ELSE TRUE]

\* includedTickets (lines 1664-1673)
includedTickets ==
    IF data.null THEN <<>>
    ELSE LET keys == ticketKeys(data) IN
         SelectSeq([n \in DOMAIN data.list |-> [ticket |-> data.list[n], key |-> keys[n]]],
                   LAMBDA entry : ~(entry.key \in DOMAIN includedTicketMap
                                    /\ includedTicketMap[entry.key] = FALSE))

appIdle ==
    /\ data = Null
    /\ error = ""
    /\ rawInput = EmptyText
    /\ isLoadingFile = FALSE
    /\ readers = NoReaders
    /\ lastImport = "none"
    /\ includedTicketMap = EmptyMap

\* no summary image on screen and nothing started
canvasIdle ==
    /\ isSavingImage = FALSE
    /\ isSharing = FALSE
    /\ actionMessage = ""
    /\ canUseWebShare = FALSE
    /\ instance = 0
    /\ ops = <<>>

\* a plausible slip: a failed parse resets the accumulated payload
parseAndSetResetting(raw) ==
    LET parsed == parseTicketJson(raw) IN
    /\ rawInput' = raw
    /\ IF parsed.ok
       THEN /\ data' = mergeTicketPayloads(data, parsed.payload)
            /\ includedTicketMap' = includedEffect(data', includedTicketMap)
            /\ error' = ""
            /\ lastImport' = "ok"
       ELSE /\ data' = Null
            /\ includedTicketMap' = EmptyMap
            /\ error' = parsed.message
            /\ lastImport' = "failed"

\* a plausible slip: the parsed payload replaces the accumulated one
parseAndSetOverwriting(raw) ==
    LET parsed == parseTicketJson(raw) IN
    /\ rawInput' = raw
    /\ IF parsed.ok
       THEN /\ data' = mergeTicketPayloads(Null, parsed.payload)
            /\ includedTicketMap' = includedEffect(data', includedTicketMap)
            /\ error' = ""
            /\ lastImport' = "ok"
       ELSE /\ data' = data
            /\ includedTicketMap' = includedTicketMap
            /\ error' = parsed.message
            /\ lastImport' = "failed"

\* parseAndSet(raw), with the effect on [data] that follows a new payload.  The
\* `!parsed.list` test cannot fire: parseTicketJson only returns values that
\* passed isTicketPayload.
parseAndSet(raw) ==
    LET parsed == parseTicketJson(raw) IN
    /\ rawInput' = raw
    /\ IF parsed.ok
       THEN /\ data' = mergeTicketPayloads(data, parsed.payload)
            /\ includedTicketMap' = includedEffect(data', includedTicketMap)
            /\ error' = ""
            /\ lastImport' = "ok"
       ELSE /\ data' = data
            /\ includedTicketMap' = includedTicketMap
            /\ error' = parsed.message
            /\ lastImport' = "failed"

\* the textarea's onChange
SetRawInput ==
    /\ pc = "app"
    /\ \E text \in PasteTexts : rawInput' = text
    /\ lastImport' = "none"
    /\ UNCHANGED <<data, error, isLoadingFile, readers, includedTicketMap, pc, arg, res,
                   canvasVars>>

handleParse ==
    /\ pc = "app"
    /\ Fits(rawInput)
    /\ parseAndSet(rawInput)
    /\ UNCHANGED <<isLoadingFile, readers, pc, arg, res, canvasVars>>

\* the button is rendered only while !data || data.list.length == 0
handleSample ==
    /\ pc = "app"
    /\ data.null \/ Len(data.list) = 0
    /\ parseAndSet(stringify(sampleTicketPayload))
    /\ UNCHANGED <<isLoadingFile, readers, pc, arg, res, canvasVars>>

handleClearInput ==
    /\ pc = "app"
    /\ rawInput' = EmptyText
    /\ lastImport' = "none"
    /\ UNCHANGED <<data, error, isLoadingFile, readers, includedTicketMap, pc, arg, res,
                   canvasVars>>

handleClearData ==
    /\ pc = "app"
    /\ data' = Null
    /\ includedTicketMap' = EmptyMap
    /\ error' = ""
    /\ lastImport' = "none"
    /\ UNCHANGED <<rawInput, isLoadingFile, readers, pc, arg, res, canvasVars>>

\* handleFileChange up to reader.readAs...(file)
handleFileChange ==
    /\ pc = "app"
    /\ InFlight < MaxReaders
    /\ \E file \in Files :
          /\ isLoadingFile' = TRUE
          /\ readers' = [readers EXCEPT ![file] = @ + 1]
    /\ lastImport' = "none"
    /\ UNCHANGED <<data, error, rawInput, includedTicketMap, pc, arg, res, canvasVars>>

\* reader.onerror, of either branch
readerOnError ==
    /\ pc = "app"
    /\ \E file \in Files :
          /\ readers[file] > 0
          /\ readers' = [readers EXCEPT ![file] = @ - 1]
          /\ isLoadingFile' = FALSE
          /\ error' = MsgFileRead
          /\ lastImport' = "failed"
    /\ UNCHANGED <<data, rawInput, includedTicketMap, pc, arg, res, canvasVars>>

\* reader.onload of the plain-text branch
readerOnLoadText ==
    /\ pc = "app"
    /\ \E file \in Files :
          /\ readers[file] > 0
          /\ ~file.isWebArchive
          /\ Fits(file.text)
          /\ readers' = [readers EXCEPT ![file] = @ - 1]
          /\ isLoadingFile' = FALSE
          /\ parseAndSet(file.text)
    /\ UNCHANGED <<pc, arg, res, canvasVars>>

\* a plausible slip: a web archive without ticket JSON reports the message
\* of parseTicketJson
readerOnLoadArchiveParseMessage ==
    /\ pc = "app"
    /\ \E file \in Files, isArrayBuffer \in BOOLEAN :
          LET decoded == file.text
              embeddedJson == extractEmbeddedTicketJson(decoded.chars)
              parsed == parseTicketJson([decoded EXCEPT !.chars = embeddedJson])
          IN  /\ readers[file] > 0
              /\ file.isWebArchive
              /\ Fits(decoded)
              /\ readers' = [readers EXCEPT ![file] = @ - 1]
              /\ isLoadingFile' = FALSE
              /\ IF ~isArrayBuffer
                 THEN /\ error' = MsgArchiveRead
                      /\ lastImport' = "failed"
                      /\ UNCHANGED <<data, rawInput, includedTicketMap>>
                 ELSE IF embeddedJson = NoSlice
                 THEN /\ error' = MsgParseFailed
                      /\ lastImport' = "failed"
                      /\ UNCHANGED <<data, rawInput, includedTicketMap>>
                 ELSE IF ~parsed.ok
                 THEN /\ error' = parsed.message
                      /\ lastImport' = "failed"
                      /\ UNCHANGED <<data, rawInput, includedTicketMap>>
                 ELSE parseAndSet(stringify(parsed.payload))
    /\ UNCHANGED <<pc, arg, res, canvasVars>>

\* reader.onload of the web-archive branch
readerOnLoadArchive ==
    /\ pc = "app"
    /\ \E file \in Files, isArrayBuffer \in BOOLEAN :
          LET decoded == file.text
              embeddedJson == extractEmbeddedTicketJson(decoded.chars)
              parsed == parseTicketJson([decoded EXCEPT !.chars = embeddedJson])
          IN  /\ readers[file] > 0
              /\ file.isWebArchive
              /\ Fits(decoded)
              /\ readers' = [readers EXCEPT ![file] = @ - 1]
              /\ isLoadingFile' = FALSE
              /\ IF ~isArrayBuffer
                 THEN /\ error' = MsgArchiveRead
                      /\ lastImport' = "failed"
                      /\ UNCHANGED <<data, rawInput, includedTicketMap>>
                 ELSE IF embeddedJson = NoSlice
                 THEN /\ error' = MsgArchiveNoJson
                      /\ lastImport' = "failed"
                      /\ UNCHANGED <<data, rawInput, includedTicketMap>>
                 ELSE IF ~parsed.ok
                 THEN /\ error' = parsed.message
                      /\ lastImport' = "failed"
                      /\ UNCHANGED <<data, rawInput, includedTicketMap>>
                 ELSE parseAndSet(stringify(parsed.payload))
    /\ UNCHANGED <<pc, arg, res, canvasVars>>

Init ==
    /\ appIdle
    /\ canvasIdle
    /\ pc = "app"
    /\ arg = <<>>
    /\ res = <<>>

Next ==
    \/ SetRawInput
    \/ handleParse
    \/ handleSample
    \/ handleClearInput
    \/ handleClearData
    \/ handleFileChange
    \/ readerOnError
    \/ readerOnLoadText
    \/ readerOnLoadArchive

Spec == Init /\ [][Next]_vars

-----------------------------------------------------------------------------
(* SpecInclude: App with the 'include' checkboxes of the ticket cards.  The  *)
(* texts typed into the paste area are well-formed JSON texts of payloads.   *)

Ticket7 == Ticket(7, Undefined, FALSE, "x", <<>>, <<>>)

\* payloads of one ticket with a ticket_id, with a numeric id only, with
\* neither; of the two tickets of another export; the sample payload
IncludePayloads ==
    { Payload(<<TicketA>>, FALSE),
      Payload(<<Ticket7>>, FALSE),
      Payload(<<TicketNoId>>, FALSE),
      Payload(<<TicketA2, TicketB>>, FALSE),
      sampleTicketPayload }

\* the textarea's onChange
SetRawInputJson ==
    /\ pc = "app"
    /\ \E payload \in IncludePayloads : rawInput' = stringify(payload)
    /\ lastImport' = "none"
    /\ UNCHANGED <<data, error, isLoadingFile, readers, includedTicketMap, pc, arg, res,
                   canvasVars>>

\* { ...previous, [ticketKey]: nextValue }
toggled(previous, ticketKey, nextValue) ==
    [key \in DOMAIN previous \cup {ticketKey} |->
        IF key = ticketKey THEN nextValue ELSE previous[key]]

\* the checkbox of the card of data.list[n]: onIncludedChange(event.target.checked)
handleTicketIncludedChange ==
    /\ pc = "app"
    /\ ~data.null
    /\ \E n \in DOMAIN data.list :
          LET ticketKey == getTicketKey(data.list[n], n - 1)
              isIncluded == ~(ticketKey \in DOMAIN includedTicketMap
                              /\ includedTicketMap[ticketKey] = FALSE)
          IN  includedTicketMap' = toggled(includedTicketMap, ticketKey, ~isIncluded)
    /\ lastImport' = "none"
    /\ UNCHANGED <<data, error, rawInput, isLoadingFile, readers, pc, arg, res, canvasVars>>

NextInclude ==
    \/ SetRawInputJson
    \/ handleParse
    \/ handleSample
    \/ handleClearData
    \/ handleTicketIncludedChange

SpecInclude == Init /\ [][NextInclude]_vars

-----------------------------------------------------------------------------
(* Schedule keys and string comparison *)

DigitSet == {Digits[d] : d \in DOMAIN Digits}

IsDigit(c) == c \in DigitSet

Letters == <<"A", "B", "C", "D", "E", "F", "G", "H", "I", "J", "K", "L", "M",
             "N", "O", "P", "Q", "R", "S", "T", "U", "V", "W", "X", "Y", "Z">>

LowerLetters == <<"a", "b", "c", "d", "e", "f", "g", "h", "i", "j", "k", "l", "m",
                  "n", "o", "p", "q", "r", "s", "t", "u", "v", "w", "x", "y", "z">>

IndexIn(q, c) == CHOOSE i \in DOMAIN q : q[i] = c

\* UTF-16 code units of the characters the model uses; "NODATE" stands for the
\* label '日付未設定' (first code unit U+65E5) and "WEEKDAY" for one of the
\* weekday characters 日月火水木金土
CharCodes ==
    [c \in DigitSet |-> 47 + IndexIn(Digits, c)]
    @@ [c \in {Letters[l] : l \in DOMAIN Letters} |-> 64 + IndexIn(Letters, c)]
    @@ [c \in {LowerLetters[l] : l \in DOMAIN LowerLetters} |-> 96 + IndexIn(LowerLetters, c)]
    @@ (" " :> 32) @@ ("(" :> 40) @@ (")" :> 41) @@ ("-" :> 45) @@ ("/" :> 47)
    @@ (":" :> 58) @@ ("WEEKDAY" :> 26000) @@ ("NODATE" :> 26085)

CharCode(c) == CharCodes[c]

\* the JavaScript string comparison a < b
RECURSIVE StrLess(_, _)
StrLess(a, b) ==
    IF b = <<>> THEN FALSE
    ELSE IF a = <<>> THEN TRUE
    ELSE IF CharCode(Head(a)) # CharCode(Head(b)) THEN CharCode(Head(a)) < CharCode(Head(b))
    ELSE StrLess(Tail(a), Tail(b))

\* /\d{n}/.test(s): n consecutive digits somewhere in s (the pattern is not anchored)
HasDigitRun(s, n) ==
    \E i \in 1..(Len(s) - n + 1) : \A j \in i..(i + n - 1) : IsDigit(s[j])

\* value ? value.replace(/\D/g, '') : ''
RECURSIVE onlyDigits(_)
onlyDigits(s) ==
    IF s = <<>> THEN <<>>
    ELSE (IF IsDigit(Head(s)) THEN <<Head(s)>> ELSE <<>>) \o onlyDigits(Tail(s))

extractDigits(value) == IF Truthy(value) THEN onlyDigits(value) ELSE <<>>

\* s.padEnd(n, c)
RECURSIVE padEnd(_, _, _)
padEnd(s, n, c) == IF Len(s) >= n THEN s ELSE padEnd(Append(s, c), n, c)

Slice(s, n) == SubSeq(s, 1, IF Len(s) < n THEN Len(s) ELSE n)

scheduleSortKey(schedule) ==
    LET date == IF Truthy(schedule.entrance_date) /\ HasDigitRun(schedule.entrance_date, 8)
                THEN schedule.entrance_date
                ELSE <<"9", "9", "9", "9", "9", "9", "9", "9">>
        startFromField == IF Truthy(schedule.start_time) /\ HasDigitRun(schedule.start_time, 4)
                          THEN schedule.start_time
                          ELSE <<>>
        startFromName == Slice(extractDigits(schedule.schedule_name), 4)
        time == padEnd(IF startFromField # <<>> THEN startFromField
                       ELSE IF startFromName # <<>> THEN startFromName
                       ELSE <<"9", "9", "9", "9">>, 4, "9")
    IN  Cat(date, time)

\* Array.prototype.sort with the comparator (keyA < keyB ? -1 : keyA > keyB ? 1 : 0),
\* on a sequence of pairs [k |-> key, v |-> element]: a stable insertion sort
RECURSIVE insertKeyed(_, _)
insertKeyed(q, x) ==
    IF q = <<>> THEN <<x>>
    ELSE IF StrLess(x.k, q[Len(q)].k)
         THEN Append(insertKeyed(SubSeq(q, 1, Len(q) - 1), x), q[Len(q)])
    ELSE Append(q, x)

RECURSIVE sortKeyed(_)
sortKeyed(q) ==
    IF q = <<>> THEN <<>>
    ELSE insertKeyed(sortKeyed(SubSeq(q, 1, Len(q) - 1)), q[Len(q)])

\* TicketSchedules.orderedSchedules: a copy, sorted by schedule key for the
\* 'event' list only
orderedSchedules(schedules, type) ==
    IF Len(schedules) = 0 THEN <<>>
    ELSE IF type = "event"
    THEN LET keyed == sortKeyed([i \in DOMAIN schedules |->
                                    [k |-> scheduleSortKey(schedules[i]), v |-> schedules[i]]])
         IN  [i \in DOMAIN keyed |-> keyed[i].v]
    ELSE schedules

-----------------------------------------------------------------------------
(* ShareableSummaryCanvas.summary: the association pass *)

Schedule(id, date, start, name, gate) ==
    [id |-> id, entrance_date |-> date, start_time |-> start, schedule_name |-> name,
     gate_type |-> gate]

\* a reference to the event object event_schedules[e] of tickets[t]
EventRef(t, e, ev) == [t |-> t, e |-> e, ev |-> ev]

\* Number(s) of a digit string
RECURSIVE StrToNum(_)
StrToNum(s) ==
    IF s = <<>> THEN 0 ELSE 10 * StrToNum(SubSeq(s, 1, Len(s) - 1)) + (IndexIn(Digits, s[Len(s)]) - 1)

RECURSIVE indexToLabel(_)
indexToLabel(index) ==
    LET value == (index \div 26) - 1 IN
    (IF value >= 0 THEN indexToLabel(value) ELSE <<>>) \o <<Letters[(index % 26) + 1]>>

\* formatDateForCanvas: the label and the month (0 stands for null)
formatDateForCanvas(raw) ==
    IF ~Truthy(raw) \/ Len(raw) # 8 \/ ~HasDigitRun(raw, 8)
    THEN [label |-> IF Str(raw) THEN raw ELSE <<"NODATE">>, month |-> 0]
    ELSE LET year == StrToNum(SubSeq(raw, 1, 4))
             month == StrToNum(SubSeq(raw, 5, 6))
             day == StrToNum(SubSeq(raw, 7, 8))
         IN  [label |-> NumStr(year) \o <<"/">> \o SubSeq(raw, 5, 6) \o <<"/">>
                        \o SubSeq(raw, 7, 8) \o <<"(", "WEEKDAY", ")">>,
              month |-> month]

\* ticket.ticket_id ?? `ticket-${ticket.id ?? ticketIndex}` (ticketIndex from 0)
ticketKeyOf(ticket, ticketIndex) ==
    IF Str(ticket.ticket_id) THEN ticket.ticket_id
    ELSE Cat(<<"t", "i", "c", "k", "e", "t", "-">>,
             NumStr(IF ticket.id # NoNum THEN ticket.id ELSE ticketIndex))

\* `${ticketKey}-${date ?? 'unknown'}`
mapKeyOf(ticketKey, date) ==
    Cat(Cat(ticketKey, <<"-">>),
        IF Str(date) THEN date ELSE <<"u", "n", "k", "n", "o", "w", "n">>)

\* the Map eventsByKey: a sequence of entries [key, list] in insertion order
mapGet(map, key) ==
    IF \E i \in DOMAIN map : map[i].key = key
    THEN map[CHOOSE i \in DOMAIN map : map[i].key = key].list
    ELSE <<>>

mapSet(map, key, list) ==
    IF \E i \in DOMAIN map : map[i].key = key
    THEN [i \in DOMAIN map |-> IF map[i].key = key THEN [key |-> key, list |-> list] ELSE map[i]]
    ELSE Append(map, [key |-> key, list |-> list])

\* a plausible slip: the entry is not consumed
mapKeep(map, key) == map

mapDelete(map, key) == SelectSeq(map, LAMBDA entry : entry.key # key)

\* a list of event references sorted by scheduleSort
sortEvents(list) ==
    LET keyed == sortKeyed([i \in DOMAIN list |-> [k |-> scheduleSortKey(list[i].ev), v |-> list[i]]])
    IN  [i \in DOMAIN keyed |-> keyed[i].v]

\* lines 1092-1101: the events of tickets[t], from event e on, put into the index
RECURSIVE indexEvents(_, _, _, _)
indexEvents(map, tickets, t, e) ==
    IF t > Len(tickets) THEN map
    ELSE IF e > Len(tickets[t].event_schedules) THEN indexEvents(map, tickets, t + 1, 1)
    ELSE LET event == tickets[t].event_schedules[e]
             mapKey == mapKeyOf(ticketKeyOf(tickets[t], t - 1), event.entrance_date)
         IN  indexEvents(mapSet(map, mapKey, Append(mapGet(map, mapKey), EventRef(t, e, event))),
                         tickets, t, e + 1)

\* lines 1103-1114: every list of the index sorted by schedule key
sortIndex(map) == [i \in DOMAIN map |-> [key |-> map[i].key, list |-> sortEvents(map[i].list)]]

\* lines 1028-1034: the hour buckets of the gate table
bucketDefinitions ==
    << [key |-> <<"0", "9">>, label |-> "9h"],
       [key |-> <<"1", "0">>, label |-> "10h"],
       [key |-> <<"1", "1">>, label |-> "11h"],
       [key |-> <<"1", "2">>, label |-> "12h"],
       [key |-> <<"1", "7">>, label |-> "17h"] >>

BucketKeys == {bucketDefinitions[i].key : i \in DOMAIN bucketDefinitions}

\* lines 1036-1041: every counter zero
NoCounts ==
    [bucketCounts |-> [key \in BucketKeys |-> [east |-> 0, west |-> 0]],
     totalEast |-> 0, totalWest |-> 0]

IsColon(c) == c \in {":", "FULLWIDTH COLON"}

\* name.match(/(\d{1,2})[:：]/) from index i on: the group of the leftmost
\* match, two digits before one; <<>> for no match
RECURSIVE matchHour(_, _)
matchHour(name, i) ==
    IF i > Len(name) THEN <<>>
    ELSE IF i + 2 <= Len(name) /\ IsDigit(name[i]) /\ IsDigit(name[i + 1]) /\ IsColon(name[i + 2])
    THEN <<name[i], name[i + 1]>>
    ELSE IF i + 1 <= Len(name) /\ IsDigit(name[i]) /\ IsColon(name[i + 1])
    THEN <<name[i]>>
    ELSE matchHour(name, i + 1)

\* match[1].padStart(2, '0')
padStart2(cs) == IF Len(cs) < 2 THEN <<"0">> \o cs ELSE cs

NoBucket == <<"null">>

\* a plausible slip: the matched hour is looked up without zero padding
determineBucketUnpadded(schedule) ==
    LET name == schedule.schedule_name IN
    IF name = Undefined \/ name = <<>> THEN NoBucket
    ELSE LET match == matchHour(name, 1) IN
         IF match = <<>> THEN NoBucket
         ELSE IF match \in BucketKeys THEN match ELSE NoBucket

\* determineBucket: the key of the hour bucket of an Entrance visit, or null
determineBucket(schedule) ==
    LET name == schedule.schedule_name IN
    IF name = Undefined \/ name = <<>> THEN NoBucket
    ELSE LET match == matchHour(name, 1) IN
         IF match = <<>> THEN NoBucket
         ELSE LET hour == padStart2(match) IN
              IF hour \in BucketKeys THEN hour ELSE NoBucket

\* lines 1140-1152: the visit counted for its gate and, if it has one, its bucket
countGate(st, schedule) ==
    LET bucketKey == determineBucket(schedule)
        gateType == schedule.gate_type
    IN  IF gateType = 1
        THEN [st EXCEPT !.totalEast = @ + 1,
                        !.bucketCounts = IF bucketKey # NoBucket
                                         THEN [@ EXCEPT ![bucketKey].east = @ + 1] ELSE @]
        ELSE IF gateType = 2
        THEN [st EXCEPT !.totalWest = @ + 1,
                        !.bucketCounts = IF bucketKey # NoBucket
                                         THEN [@ EXCEPT ![bucketKey].west = @ + 1] ELSE @]
        ELSE st

\* lines 1228-1249: a row per bucket, then the row of the totals
entranceTable(st) ==
    [columns |-> <<"east", "west", "total">>,
     rows |-> [i \in DOMAIN bucketDefinitions |->
                  LET counts == st.bucketCounts[bucketDefinitions[i].key] IN
                  [label |-> bucketDefinitions[i].label, east |-> counts.east,
                   west |-> counts.west, total |-> counts.east + counts.west]]
              \o <<[label |-> "total", east |-> st.totalEast, west |-> st.totalWest,
                    total |-> st.totalEast + st.totalWest]>>]

\* lines 1125-1214: the entrance loop, from schedule s of tickets[t] on; st holds
\* the index, the entrance lines pushed so far and the gate counters
RECURSIVE entranceLoop(_, _, _, _)
entranceLoop(st, tickets, t, s) ==
    IF t > Len(tickets) THEN st
    ELSE IF s > Len(tickets[t].schedules) THEN entranceLoop(st, tickets, t + 1, 1)
    ELSE LET schedule == tickets[t].schedules[s]
             dateInfo == formatDateForCanvas(schedule.entrance_date)
             label == indexToLabel(t - 1)
             mapKey == mapKeyOf(ticketKeyOf(tickets[t], t - 1), schedule.entrance_date)
             relatedEvents == mapGet(st.map, mapKey)
             line == [t |-> t, s |-> s, schedule |-> schedule, events |-> relatedEvents,
                      month |-> dateInfo.month,
                      \* the first of the non-empty parts joined into line.text
                      datePart |-> IF dateInfo.label # <<>> THEN dateInfo.label ELSE label]
         IN  entranceLoop([countGate(st, schedule) EXCEPT !.map = mapDelete(st.map, mapKey),
                                                              !.lines = Append(st.lines, line)],
                          tickets, t, s + 1)

\* a plausible slip: the entrance lines are left in the order pushed
keepEntranceLines(lines) == lines

\* lines 1216-1226: entranceLines sorted by the first part of line.text
sortEntranceLines(lines) ==
    LET keyed == sortKeyed([i \in DOMAIN lines |-> [k |-> lines[i].datePart, v |-> lines[i]]])
    IN  [i \in DOMAIN keyed |-> keyed[i].v]

RECURSIVE Flat(_)
Flat(map) == IF map = <<>> THEN <<>> ELSE Head(map).list \o Flat(Tail(map))

\* the association part of the summary memo: entranceLines, leftoverEvents
\* and the gate table
associate(tickets) ==
    LET eventsByKey == sortIndex(indexEvents(<<>>, tickets, 1, 1))
        st == entranceLoop([map |-> eventsByKey, lines |-> <<>>,
                            bucketCounts |-> NoCounts.bucketCounts,
                            totalEast |-> NoCounts.totalEast, totalWest |-> NoCounts.totalWest],
                           tickets, 1, 1)
    IN  [entranceLines |-> sortEntranceLines(st.lines),
         leftoverEvents |-> sortEvents(Flat(st.map)),
         entranceTable |-> entranceTable(st)]

-----------------------------------------------------------------------------
(* ShareableSummaryCanvas.summary: the layout *)

MAX_CANVAS_PIXELS == 16777216
width == 1080
paddingTop == 96
paddingBottom == 96
lineHeight == 44
blankSpacing == (lineHeight * 7 + 5) \div 10     \* Math.round(lineHeight * 0.7)
chartHeight == 240
chartTopMargin == 24
chartLabelArea == 80
chartBottomMargin == 0
beforeStatsSpacing == 8
afterStatsSpacing == 12
bucketCount == 5                                 \* bucketDefinitions.length
tableRowCount == (bucketCount + 1) + 1           \* entranceTable.rows.length + 1

\* lines 1285-1331: the vertical cursor, section by section
layout(ticketLineCount, entranceLineCount, totalEventCount, leftoverCount, showDetailed) ==
    LET headerEnd == paddingTop + lineHeight + beforeStatsSpacing + lineHeight + afterStatsSpacing
        listStart == IF showDetailed THEN headerEnd + blankSpacing ELSE headerEnd
        listEnd ==
            IF showDetailed
            THEN listStart + lineHeight + ticketLineCount * lineHeight
                 + blankSpacing + lineHeight + entranceLineCount * lineHeight
                 + totalEventCount * lineHeight
                 + (IF leftoverCount > 0
                    THEN blankSpacing + lineHeight + leftoverCount * lineHeight ELSE 0)
            ELSE headerEnd
        summaryStart == listEnd + blankSpacing
        cursorHeight == summaryStart + lineHeight + chartTopMargin + chartHeight
                        + chartLabelArea + chartBottomMargin
                        + blankSpacing + lineHeight + tableRowCount * lineHeight
                        + blankSpacing + lineHeight
    IN  [width |-> width, height |-> cursorHeight + paddingBottom, lineHeight |-> lineHeight,
         showDetailed |-> showDetailed,
         \* the lengths of ticketLines, entranceLines, their events, leftoverEvents
         ticketLines |-> ticketLineCount, entranceLines |-> entranceLineCount,
         eventLines |-> totalEventCount, leftoverEvents |-> leftoverCount,
         sections |-> [headerEnd |-> headerEnd, listStart |-> listStart,
                       listEnd |-> listEnd, summaryStart |-> summaryStart]]

\* renderSummaryContent, lines 834-884: the cursorY of every row drawn in the
\* list block (ticket heading and lines; schedule heading, entrance and nested
\* event lines; leftover heading and lines), each lineHeight high
listRows(summary) ==
    LET ticketsY == paddingTop + lineHeight + beforeStatsSpacing + lineHeight
                    + afterStatsSpacing + blankSpacing
        ticketRows == 1 + summary.ticketLines
        schedulesY == ticketsY + ticketRows * lineHeight + blankSpacing
        scheduleRows == 1 + summary.entranceLines + summary.eventLines
        leftoversY == schedulesY + scheduleRows * lineHeight + blankSpacing
        leftoverRows == IF summary.leftoverEvents > 0 THEN 1 + summary.leftoverEvents ELSE 0
    IN  IF ~summary.showDetailed THEN {}
        ELSE {ticketsY + i * lineHeight : i \in 0..(ticketRows - 1)}
             \cup {schedulesY + i * lineHeight : i \in 0..(scheduleRows - 1)}
             \cup {leftoversY + i * lineHeight : i \in 0..(leftoverRows - 1)}

\* renderSummaryContent, lines 634 and 834-887: cursorY when the ticket-list
\* heading is drawn, after the last row of the list block, and when the
\* month-chart heading is drawn (every drawn row advances it by lineHeight)
renderCursor(summary) ==
    LET afterStats == paddingTop + lineHeight + beforeStatsSpacing + lineHeight
                      + afterStatsSpacing
        listHeading == afterStats + blankSpacing                              \* line 845
        afterTickets == listHeading + lineHeight + summary.ticketLines * lineHeight
        afterSchedules == afterTickets + blankSpacing + lineHeight
                          + summary.entranceLines * lineHeight
                          + summary.eventLines * lineHeight
        afterLeftovers == IF summary.leftoverEvents > 0
                          THEN afterSchedules + blankSpacing + lineHeight
                               + summary.leftoverEvents * lineHeight
                          ELSE afterSchedules
        afterList == IF summary.showDetailed THEN afterLeftovers + blankSpacing   \* line 883
                     ELSE listHeading
    IN  [listHeading |-> listHeading,
         lastRowEnd |-> afterLeftovers,
         chartHeading |-> afterList + blankSpacing]                           \* line 886

RECURSIVE SumLens(_)
SumLens(lines) == IF lines = <<>> THEN 0 ELSE Len(Head(lines).events) + SumLens(Tail(lines))

\* the summary memo (null for an empty ticket list)
summaryOf(tickets, isDetailedView) ==
    LET a == associate(tickets) IN
    [isNull |-> FALSE,
     entranceLines |-> a.entranceLines,
     leftoverEvents |-> a.leftoverEvents,
     entranceTable |-> a.entranceTable,
     layout |-> layout(Len(tickets), Len(a.entranceLines), SumLens(a.entranceLines),
                       Len(a.leftoverEvents), isDetailedView)]

NullSummary == [isNull |-> TRUE]

-----------------------------------------------------------------------------
(* The segment effect (lines 1364-1411) *)

Floor0(a, b) == a \div b

MinOf(a, b) == IF a < b THEN a ELSE b

MaxOf(a, b) == IF a > b THEN a ELSE b

\* ratio = 1
effectiveMaxHeightOf(summary) ==
    LET maxSegmentHeight == Floor0(MAX_CANVAS_PIXELS, summary.width * 1)
    IN  MaxOf(summary.lineHeight,
              IF maxSegmentHeight < summary.lineHeight THEN summary.lineHeight
              ELSE maxSegmentHeight)

\* a plausible slip: the maximum is not raised to lineHeight and the
\* fallback for a height of zero is missing
segmentHeightUnraised(summary, current, end, alignToLine) ==
    LET remaining == end - current
        h0 == MinOf(remaining, Floor0(MAX_CANVAS_PIXELS, summary.width * 1))
        h1 == IF alignToLine /\ h0 < remaining
              THEN MaxOf(1, Floor0(h0, summary.lineHeight)) * summary.lineHeight
              ELSE h0
    IN  MinOf(h1, remaining)

\* a plausible slip: the height is not capped by the maximum segment height
segmentHeightUncapped(summary, current, end, alignToLine) == end - current

\* one iteration of addSegment's loop: the height of the segment pushed
segmentHeight(summary, current, end, alignToLine) ==
    LET remaining == end - current
        h0 == MinOf(remaining, effectiveMaxHeightOf(summary))
        h1 == IF alignToLine /\ h0 < remaining
              THEN MaxOf(1, Floor0(h0, summary.lineHeight)) * summary.lineHeight
              ELSE h0
        h2 == IF h1 <= 0 THEN MinOf(remaining, summary.lineHeight) ELSE h1
    IN  MinOf(h2, remaining)

\* the three calls of addSegment: start, end, alignToLine; the list zone is
\* skipped unless showDetailed && listEnd > listStart
zoneOf(summary, zone) ==
    CASE zone = "header" -> [start |-> 0, end |-> summary.sections.headerEnd, align |-> FALSE]
      [] zone = "list" -> [start |-> summary.sections.listStart,
                           end |-> summary.sections.listEnd, align |-> TRUE]
      [] zone = "summary" -> [start |-> summary.sections.summaryStart,
                              end |-> summary.height, align |-> FALSE]

nextZone(summary, zone) ==
    CASE zone = "header" ->
            IF summary.showDetailed /\ summary.sections.listEnd > summary.sections.listStart
            THEN "list" ELSE "summary"
      [] zone = "list" -> "summary"
      [] zone = "summary" -> "done"

-----------------------------------------------------------------------------
(* SpecMerge: mergeTicketPayloads applied to bounded inputs, then the same *)
(* incoming payload imported a second time into the result.                *)

InitMerge ==
    /\ appIdle
    /\ canvasIdle
    /\ pc = "start"
    /\ \E ex \in {Null} \cup {Payload(l, FALSE) : l \in MergeLists},
          inc \in {Payload(l, s) : l \in MergeLists, s \in BOOLEAN} :
            arg = [existing |-> ex, incoming |-> inc]
    /\ res = <<>>

MergeOnce ==
    /\ pc = "start"
    /\ res' = <<mergeTicketPayloads(arg.existing, arg.incoming)>>
    /\ pc' = "merged"
    /\ UNCHANGED <<arg, appVars, canvasVars>>

MergeAgain ==
    /\ pc = "merged"
    /\ res' = Append(res, mergeTicketPayloads(res[1], arg.incoming))
    /\ pc' = "remerged"
    /\ UNCHANGED <<arg, appVars, canvasVars>>

NextMerge == MergeOnce \/ MergeAgain

SpecMerge == InitMerge /\ [][NextMerge]_vars

-----------------------------------------------------------------------------
(* SpecSummary: the summary memo applied to bounded ticket lists, recomputed *)
(* when the detail view is toggled.                                          *)

MaxTickets == 2

Date1 == <<"2", "0", "2", "5", "0", "4", "1", "5">>
Date2 == <<"2", "0", "2", "5", "0", "4", "2", "0">>
Time0900 == <<"0", "9", "0", "0">>
Time1000 == <<"1", "0", "0", "0">>

Entrance1 == Schedule(NoNum, Date1, Time0900, Undefined, 1)
Entrance2 == Schedule(NoNum, Date2, Time1000, Undefined, 2)

Event1000 == Schedule(NoNum, Date1, Time1000, Undefined, 0)
Event0900 == Schedule(NoNum, Date1, Time0900, Undefined, 0)
EventDate2 == Schedule(NoNum, Date2, Time0900, Undefined, 0)

\* no visit, one visit, two visits out of date order, two visits on one date
SummaryVisits == {<<>>, <<Entrance1>>, <<Entrance2, Entrance1>>, <<Entrance1, Entrance1>>}

\* tickets without ticket_id (with and without a numeric id), with an empty
\* and with a regular ticket_id, each with two events of one date out of time
\* order or with one event of the other date; tickets without events (their
\* key is never used) with a regular ticket_id only
SummaryTickets ==
    {Ticket(NoNum, <<"a">>, FALSE, "x", scheds, <<>>) : scheds \in SummaryVisits}
    \cup {Ticket(id[1], id[2], FALSE, "x", scheds, events) :
            id \in {<<NoNum, Undefined>>, <<0, Undefined>>, <<NoNum, <<>>>>, <<NoNum, <<"a">>>>},
            scheds \in SummaryVisits,
            events \in {<<Event1000, Event0900>>, <<EventDate2>>}}

InitSummary ==
    /\ appIdle
    /\ canvasIdle
    /\ pc = "tickets"
    /\ \E tickets \in SeqsUpTo(SummaryTickets, MaxTickets) :
          arg = [tickets |-> tickets, isDetailedView |-> TRUE, cards |-> <<>>]
    /\ res = NullSummary

\* lines 523-528: the two lists of the card of one ticket
ticketCard(ticket) ==
    [entrance |-> orderedSchedules(ticket.schedules, "entrance"),
     event |-> orderedSchedules(ticket.event_schedules, "event")]

\* the render pass after an import: the cards of the tickets and, in
\* ShareableSummaryCanvas, the useMemo of summary
computeSummary ==
    /\ pc = "tickets"
    /\ pc' = "summary"
    /\ res' = IF Len(arg.tickets) = 0 THEN NullSummary
              ELSE summaryOf(arg.tickets, arg.isDetailedView)
    /\ arg' = [arg EXCEPT !.cards = [t \in DOMAIN arg.tickets |-> ticketCard(arg.tickets[t])]]
    /\ UNCHANGED <<appVars, canvasVars>>

\* setIsDetailedView, and the memo recomputed for the new flag
toggleDetailedView ==
    /\ pc = "summary"
    /\ arg' = [arg EXCEPT !.isDetailedView = ~@]
    /\ res' = IF Len(arg.tickets) = 0 THEN NullSummary
              ELSE summaryOf(arg.tickets, ~arg.isDetailedView)
    /\ UNCHANGED <<pc, appVars, canvasVars>>

NextSummary == computeSummary \/ toggleDetailedView

SpecSummary == InitSummary /\ [][NextSummary]_vars

-----------------------------------------------------------------------------
(* SpecTable: the summary memo applied to tickets whose Entrance visits carry *)
(* display names and gates.                                                  *)

MaxTableTickets == 2

Visit(name, gate) == Schedule(NoNum, Date1, Time0900, name, gate)

Name0900 == <<"9", ":", "0", "0">>
Name0900Padded == <<"0", "9", ":", "0", "0", "-">>
Name1030Wide == <<"1", "0", "FULLWIDTH COLON", "3", "0">>
Name1300 == <<"1", "3", ":", "0", "0">>
Name10900 == <<"1", "0", "9", ":", "0", "0">>
Name1700After == <<"x", ":", "1", "7", ":", "0", "0">>
NameNoColon == <<"1", "2">>

\* hours written with one and with two digits, with a full-width colon, not
\* in the table, after a third digit, after a colon that follows no digit;
\* no colon, no name; East, West and no gate
TableVisits ==
    { Visit(Name0900, 1), Visit(Name0900Padded, 2), Visit(Name0900, 0),
      Visit(Name1030Wide, 1), Visit(Name1300, 2), Visit(Name10900, 1),
      Visit(Name1700After, 2), Visit(NameNoColon, 1), Visit(Undefined, 2) }

TableTickets ==
    {Ticket(NoNum, <<"a">>, FALSE, "x", <<v>>, <<>>) : v \in TableVisits}
    \cup { Ticket(NoNum, <<"b">>, FALSE, "x", <<>>, <<>>),
           Ticket(NoNum, <<"b">>, FALSE, "x",
                  <<Visit(Name0900, 1), Visit(Name0900Padded, 2)>>, <<>>),
           Ticket(NoNum, <<"b">>, FALSE, "x",
                  <<Visit(Name1030Wide, 1), Visit(Name1030Wide, 1)>>, <<>>) }

InitTable ==
    /\ appIdle
    /\ canvasIdle
    /\ pc = "tickets"
    /\ \E tickets \in SeqsUpTo(TableTickets, MaxTableTickets) :
          arg = [tickets |-> tickets, isDetailedView |-> TRUE, cards |-> <<>>]
    /\ res = NullSummary

SpecTable == InitTable /\ [][NextSummary]_vars

-----------------------------------------------------------------------------
(* SpecSegments: the segment effect run on layouts of bounded line counts,    *)
(* one step per iteration of addSegment's loop.                              *)

MaxTicketLines == 30
MaxEntranceLines == 400
MaxEventLines == 1500
MaxLeftoverLines == 7

InitSegments ==
    /\ appIdle
    /\ canvasIdle
    /\ pc = "header"
    /\ \E ticketLineCount \in {1, MaxTicketLines},
          entranceLineCount \in {0, 1, MaxEntranceLines},
          totalEventCount \in {0, MaxEventLines \div 5, MaxEventLines},
          leftoverCount \in {0, MaxLeftoverLines},
          showDetailed \in BOOLEAN :
            \* events are nested under entrance lines only
            /\ totalEventCount > 0 => entranceLineCount > 0
            /\ arg = layout(ticketLineCount, entranceLineCount, totalEventCount, leftoverCount,
                         showDetailed)
    /\ res = [newSegments |-> <<>>, current |-> 0]

\* the body of `while (current < end)`
addSegmentIteration ==
    /\ pc \in {"header", "list", "summary"}
    /\ LET zone == zoneOf(arg, pc)
           height == segmentHeight(arg, res.current, zone.end, zone.align)
       IN  /\ res.current < zone.end
           /\ res' = [newSegments |-> Append(res.newSegments,
                                             [start |-> res.current, height |-> height, zone |-> pc]),
                      current |-> res.current + height]
    /\ UNCHANGED <<pc, arg, appVars, canvasVars>>

\* addSegment returns and the next call, if any, starts
addSegmentReturn ==
    /\ pc \in {"header", "list", "summary"}
    /\ res.current >= zoneOf(arg, pc).end
    /\ pc' = nextZone(arg, pc)
    /\ res' = [res EXCEPT !.current = IF pc' = "done" THEN @ ELSE zoneOf(arg, pc').start]
    /\ UNCHANGED <<arg, appVars, canvasVars>>

NextSegments == addSegmentIteration \/ addSegmentReturn

SpecSegments == InitSegments /\ [][NextSegments]_vars

-----------------------------------------------------------------------------
(* SpecAddSegment: one call addSegment(start, end, alignToLine) of the       *)
(* segment effect, one step per iteration of its loop.  The summary of the  *)
(* closure has the layout's width or a width for which                      *)
(* floor(MAX_CANVAS_PIXELS / width) is below lineHeight.                     *)

MaxSpan == 140      \* the longest short zone, in pixels

\* floor(MAX_CANVAS_PIXELS / width): 15534, 41 and 0
SegmentWidths == {width, 400000, 20000000}

\* a zone longer than the 15534 px a canvas of the layout's width may have
LongSpan == 31100

SegmentStarts == {0, 235}

SegmentSpans == {-lineHeight, 0, 1, lineHeight, MaxSpan - 8, MaxSpan, LongSpan}

InitAddSegment ==
    /\ appIdle
    /\ canvasIdle
    /\ pc = "call"
    /\ \E w \in SegmentWidths, start \in SegmentStarts, span \in SegmentSpans,
          alignToLine \in BOOLEAN :
            \* the long zone is cut into many segments unless the width is the layout's
            /\ span = LongSpan => w = width
            /\ arg = [summary |-> [width |-> w, lineHeight |-> lineHeight],
                      start |-> start, end |-> start + span, alignToLine |-> alignToLine]
    /\ res = [newSegments |-> <<>>, current |-> 0]

\* `if (end <= start) return; let current = start;`
addSegmentEnter ==
    /\ pc = "call"
    /\ IF arg.end <= arg.start
       THEN pc' = "returned" /\ res' = res
       ELSE pc' = "while" /\ res' = [res EXCEPT !.current = arg.start]
    /\ UNCHANGED <<arg, appVars, canvasVars>>

\* the body of `while (current < end)`
addSegmentLoop ==
    /\ pc = "while"
    /\ res.current < arg.end
    /\ LET height == segmentHeight(arg.summary, res.current, arg.end, arg.alignToLine)
       IN  res' = [newSegments |-> Append(res.newSegments,
                                          [start |-> res.current, height |-> height]),
                   current |-> res.current + height]
    /\ UNCHANGED <<pc, arg, appVars, canvasVars>>

\* the loop test fails
addSegmentExit ==
    /\ pc = "while"
    /\ res.current >= arg.end
    /\ pc' = "returned"
    /\ UNCHANGED <<arg, res, appVars, canvasVars>>

NextAddSegment == addSegmentEnter \/ addSegmentLoop \/ addSegmentExit

\* the call is synchronous code: each of its steps is taken when it can be
SpecAddSegment ==
    /\ InitAddSegment
    /\ [][NextAddSegment]_vars
    /\ WF_vars(addSegmentEnter)
    /\ WF_vars(addSegmentLoop)
    /\ WF_vars(addSegmentExit)

-----------------------------------------------------------------------------
(* SpecCanvas: one ShareableSummaryCanvas on screen.  Its two effects run    *)
(* after the mount; the save and share handlers start asynchronous           *)
(* operations that settle later; App renders the component only while        *)
(* includedTickets is not empty, so it can be unmounted and mounted again    *)
(* (a fresh instance, fresh useState values) while operations are pending.   *)

MaxOps == 2        \* save/share operations in flight at once
MaxMounts == 2     \* mounts of the component

\* the loop of addSegment for one zone, from `current` on
RECURSIVE addSegment(_, _, _, _)
addSegment(summary, newSegments, current, zone) ==
    IF current >= zoneOf(summary, zone).end THEN newSegments
    ELSE LET height == segmentHeight(summary, current, zoneOf(summary, zone).end,
                                     zoneOf(summary, zone).align)
         IN  addSegment(summary,
                        Append(newSegments, [start |-> current, height |-> height, zone |-> zone]),
                        current + height, zone)

\* the calls of addSegment, from the call for `zone` on
RECURSIVE segmentEffect(_, _, _)
segmentEffect(summary, newSegments, zone) ==
    IF zone = "done" THEN newSegments
    ELSE segmentEffect(summary,
                       addSegment(summary, newSegments, zoneOf(summary, zone).start, zone),
                       nextZone(summary, zone))

\* Math.max(1, Math.floor(width * ratio)) x Math.max(1, Math.floor(height * ratio)),
\* with ratio = displayPixelRatio = 1
canvasSize(w, h) == [width |-> MaxOf(1, w * 1), height |-> MaxOf(1, h * 1)]

\* the draw effect: the pixel size given to the canvas of every segment
drawEffect(summary, segments) ==
    [i \in DOMAIN segments |-> canvasSize(summary.width, segments[i].height)]

\* getCanvasBlob: the offscreen canvas it creates
getCanvasBlob(summary) == canvasSize(summary.width, summary.height)

MsgDownloaded == "image downloaded"              \* '画像をダウンロードしました。'
MsgImageFailed == "image generation failed"      \* '画像の生成に失敗しました。'
MsgShareOpened == "share menu opened"            \* '共有メニューを開きました。'
MsgCannotShare == "device cannot share images"   \* 'このデバイスは画像共有に対応していません。'
MsgShareFailed == "share failed"                 \* '共有に失敗しました。' / the rejection's message

Operation(kind, stage, summary) ==
    [kind |-> kind, stage |-> stage, instance |-> instance, offscreen |-> getCanvasBlob(summary)]

RemoveAt(q, i) == SubSeq(q, 1, i - 1) \o SubSeq(q, i + 1, Len(q))

InCanvas == pc \in {"effects", "segmented", "drawn", "unmounted"}

\* the instance that started the operation is still the one on screen; the
\* state setters of an unmounted instance do nothing
Alive(op) == pc # "unmounted" /\ op.instance = instance

\* a short summary without the lists, a short one with them, and one whose
\* list zone and whose total height exceed the segment cap
CanvasLayouts ==
    { layout(1, 1, 0, 0, FALSE),
      layout(1, 1, 1, 1, TRUE),
      layout(MaxTicketLines, MaxEntranceLines, MaxEventLines \div 5, 0, TRUE) }

InitCanvas ==
    /\ appIdle
    /\ isSavingImage = FALSE
    /\ isSharing = FALSE
    /\ actionMessage = ""
    /\ canUseWebShare \in BOOLEAN
    /\ instance = 1
    /\ ops = <<>>
    /\ pc = "effects"
    /\ arg \in CanvasLayouts
    /\ res = [segments |-> <<>>, canvases |-> <<>>]

\* the effect of lines 1364-1411, as a whole
runSegmentEffect ==
    /\ pc = "effects"
    /\ res' = [res EXCEPT !.segments = segmentEffect(arg, <<>>, "header")]
    /\ pc' = "segmented"
    /\ UNCHANGED <<arg, appVars, canvasVars>>

\* the effect of lines 1413-1457
runDrawEffect ==
    /\ pc = "segmented"
    /\ res' = [res EXCEPT !.canvases = drawEffect(arg, res.segments)]
    /\ pc' = "drawn"
    /\ UNCHANGED <<arg, appVars, canvasVars>>

\* handleSaveImage up to the pending toBlob of `await getCanvasBlob()`
handleSaveImage ==
    /\ pc = "drawn"
    /\ Len(ops) < MaxOps
    /\ ~isSavingImage
    /\ actionMessage' = ""
    /\ isSavingImage' = TRUE
    /\ ops' = Append(ops, Operation("save", "toBlob", arg))
    /\ UNCHANGED <<isSharing, canUseWebShare, instance, pc, arg, res, appVars>>

\* the toBlob callback of a save and the rest of handleSaveImage: the download
\* or the catch block, then the finally block
saveSettled ==
    /\ InCanvas
    /\ \E i \in DOMAIN ops, blob \in BOOLEAN :
          /\ ops[i].kind = "save"
          /\ ops' = RemoveAt(ops, i)
          /\ IF Alive(ops[i])
             THEN /\ actionMessage' = IF blob THEN MsgDownloaded ELSE MsgImageFailed
                  /\ isSavingImage' = FALSE
             ELSE UNCHANGED <<actionMessage, isSavingImage>>
    /\ UNCHANGED <<isSharing, canUseWebShare, instance, pc, arg, res, appVars>>

\* handleShareImage up to the pending toBlob of `await getCanvasBlob()`
handleShareImage ==
    /\ pc = "drawn"
    /\ Len(ops) < MaxOps
    /\ canUseWebShare /\ ~isSharing
    /\ actionMessage' = ""
    /\ isSharing' = TRUE
    /\ ops' = Append(ops, Operation("share", "toBlob", arg))
    /\ UNCHANGED <<isSavingImage, canUseWebShare, instance, pc, arg, res, appVars>>

\* the toBlob callback of a share: navigator.share is called, or an Error is
\* thrown (no blob, canShare refuses) and the catch and finally blocks run
shareBlobSettled ==
    /\ InCanvas
    /\ \E i \in DOMAIN ops, blob \in BOOLEAN, canShare \in BOOLEAN :
          /\ ops[i].kind = "share" /\ ops[i].stage = "toBlob"
          /\ IF blob /\ canShare
             THEN /\ ops' = [ops EXCEPT ![i].stage = "share"]
                  /\ UNCHANGED <<actionMessage, isSharing>>
             ELSE /\ ops' = RemoveAt(ops, i)
                  /\ IF Alive(ops[i])
                     THEN /\ actionMessage' = IF blob THEN MsgCannotShare ELSE MsgImageFailed
                          /\ isSharing' = FALSE
                     ELSE UNCHANGED <<actionMessage, isSharing>>
    /\ UNCHANGED <<isSavingImage, canUseWebShare, instance, pc, arg, res, appVars>>

\* the promise of navigator.share settles and the rest of handleShareImage runs
shareSettled ==
    /\ InCanvas
    /\ \E i \in DOMAIN ops, resolved \in BOOLEAN :
          /\ ops[i].kind = "share" /\ ops[i].stage = "share"
          /\ ops' = RemoveAt(ops, i)
          /\ IF Alive(ops[i])
             THEN /\ actionMessage' = IF resolved THEN MsgShareOpened ELSE MsgShareFailed
                  /\ isSharing' = FALSE
             ELSE UNCHANGED <<actionMessage, isSharing>>
    /\ UNCHANGED <<isSavingImage, canUseWebShare, instance, pc, arg, res, appVars>>

\* includedTickets becomes empty (line 1979): the component leaves the screen
unmountCanvas ==
    /\ pc = "drawn"
    /\ pc' = "unmounted"
    /\ isSavingImage' = FALSE
    /\ isSharing' = FALSE
    /\ actionMessage' = ""
    /\ res' = [segments |-> <<>>, canvases |-> <<>>]
    /\ UNCHANGED <<canUseWebShare, instance, ops, arg, appVars>>

\* the same tickets are included again: a new instance with fresh state
mountCanvas ==
    /\ pc = "unmounted"
    /\ instance < MaxMounts
    /\ instance' = instance + 1
    /\ pc' = "effects"
    /\ UNCHANGED <<isSavingImage, isSharing, actionMessage, canUseWebShare, ops, arg, res,
                   appVars>>

NextCanvas ==
    \/ runSegmentEffect
    \/ runDrawEffect
    \/ handleSaveImage
    \/ saveSettled
    \/ handleShareImage
    \/ shareBlobSettled
    \/ shareSettled
    \/ unmountCanvas
    \/ mountCanvas

SpecCanvas == InitCanvas /\ [][NextCanvas]_vars

\* a step of the operation of this kind that this instance started: its
\* toBlob callback runs, or the promise of navigator.share settles
settleStep(kind, inst) ==
    /\ saveSettled \/ shareBlobSettled \/ shareSettled
    /\ \E i \in DOMAIN ops :
          /\ ops[i].kind = kind /\ ops[i].instance = inst
          /\ ops' = RemoveAt(ops, i) \/ ops' = [ops EXCEPT ![i].stage = "share"]

\* SpecCanvasLive: the browser calls every pending toBlob callback and the
\* user answers every share sheet; clicks and (un)mounts are under no
\* obligation.
SpecCanvasLive ==
    /\ InitCanvas
    /\ [][NextCanvas]_vars
    /\ \A kind \in {"save", "share"}, inst \in 1..MaxMounts : WF_vars(settleStep(kind, inst))

-----------------------------------------------------------------------------
(* renderSummaryContent.drawSplitLine: the right-hand text of a nested event *)
(* line (lines 689-832).  context.measureText is the browser's: a font is    *)
(* a table of glyph advances in tenths of an em, and a measured width is in  *)
(* tenths of a pixel.                                                        *)

innerPaddingX == 120
eventXOffset == 36                                  \* xOffset of line 861
splitGap == 24                                      \* gap of line 696
sectionWidth == width - innerPaddingX * 2
totalAvailable == MaxOf(0, sectionWidth - eventXOffset)
leftWidth == (totalAvailable - splitGap) \div 2
rightWidth == totalAvailable - splitGap - leftWidth
baseFontSize == 26
minFontSize == MaxOf(10, baseFontSize \div 2)       \* Math.round((26 / 2) * 10) / 10

Ellipsis == "ELLIPSIS"                              \* the character U+2026
WideSpace == "WIDESPACE"                            \* the character U+3000

RECURSIVE SumAdvances(_, _)
SumAdvances(adv, text) ==
    IF text = <<>> THEN 0 ELSE adv[Head(text)] + SumAdvances(adv, Tail(text))

\* context.measureText(text).width with the font at `size` px, in tenths of a pixel
measureText(adv, size, text) == size * SumAdvances(adv, text)

\* measureText(text).width <= rightWidth
FitsRight(adv, size, text) == measureText(adv, size, text) <= rightWidth * 10

\* the search of lines 719-734: the first size from 26 down to 13 at which the
\* whole text fits, 0 for none
RECURSIVE singleLineFont(_, _, _)
singleLineFont(adv, right, size) ==
    IF size < minFontSize THEN 0
    ELSE IF FitsRight(adv, size, right) THEN size
    ELSE singleLineFont(adv, right, size - 1)

IsBlank(c) == c \in {" ", WideSpace}

RECURSIVE blankTrimEnd(_)
blankTrimEnd(t) ==
    IF t = <<>> THEN <<>>
    ELSE IF IsBlank(t[Len(t)]) THEN blankTrimEnd(SubSeq(t, 1, Len(t) - 1)) ELSE t

RECURSIVE blankTrimStart(_)
blankTrimStart(t) ==
    IF t = <<>> THEN <<>> ELSE IF IsBlank(Head(t)) THEN blankTrimStart(Tail(t)) ELSE t

Abs(n) == IF n < 0 THEN 0 - n ELSE n

\* findMidSpaceSplit: <<>> stands for null.  Positions are 1-based here, so
\* the distance |index - (length - 1) / 2| is compared doubled.
findMidSpaceSplit(value) ==
    LET indices == {i \in DOMAIN value : IsBlank(value[i])}
        distance(i) == Abs(2 * (i - 1) - (Len(value) - 1))
        bestIndex == CHOOSE i \in indices :
                        \A j \in indices : distance(i) < distance(j)
                                           \/ (distance(i) = distance(j) /\ i <= j)
    IN  IF indices = {} THEN <<>>
        ELSE LET first == blankTrimEnd(SubSeq(value, 1, bestIndex - 1))
                 second == blankTrimStart(SubSeq(value, bestIndex + 1, Len(value)))
             IN  IF first = <<>> \/ second = <<>> THEN <<>> ELSE <<first, second>>

\* the while loop of lines 782-784
RECURSIVE truncateToFit(_, _)
truncateToFit(adv, truncated) ==
    IF Len(truncated) > 0 /\ ~FitsRight(adv, minFontSize, Append(truncated, Ellipsis))
    THEN truncateToFit(adv, SubSeq(truncated, 1, Len(truncated) - 1))
    ELSE truncated

\* the for loop of lines 772-788 over the characters still to place
RECURSIVE packChars(_, _, _)
packChars(adv, lines, rest) ==
    IF rest = <<>> THEN [returned |-> FALSE, lines |-> lines]
    ELSE LET char == Head(rest)
             current == lines[Len(lines)]
             candidate == Append(current, char)
         IN  IF FitsRight(adv, minFontSize, candidate) \/ current = <<>>
             THEN packChars(adv, [lines EXCEPT ![Len(lines)] = candidate], Tail(rest))
             ELSE IF Len(lines) < 2
             THEN packChars(adv, Append(lines, <<char>>), Tail(rest))
             ELSE LET truncated == truncateToFit(adv, lines[2])
                  IN  [returned |-> TRUE,
                       lines |-> <<lines[1],
                                   IF Len(truncated) > 0 THEN Append(truncated, Ellipsis)
                                   ELSE <<Ellipsis>>>>]

\* the for loop of lines 801-810: the largest index at which both parts fit
RECURSIVE splitAnywhere(_, _, _)
splitAnywhere(adv, original, index) ==
    IF index <= 0 THEN <<original, <<>>>>
    ELSE LET first == SubSeq(original, 1, index)
             second == SubSeq(original, index + 1, Len(original))
         IN  IF FitsRight(adv, minFontSize, first) /\ FitsRight(adv, minFontSize, second)
             THEN <<first, second>>
             ELSE splitAnywhere(adv, original, index - 1)

\* wrapRightText, measured with twoLineFont: the pair [firstLine, secondLine]
wrapRightText(adv, text) ==
    LET packed == packChars(adv, <<<<>>>>, text)
        original == packed.lines[1]
        splitBySpace == findMidSpaceSplit(original)
    IN  IF packed.returned THEN packed.lines
        ELSE IF Len(packed.lines) = 1
        THEN IF splitBySpace # <<>>
                /\ FitsRight(adv, minFontSize, splitBySpace[1])
                /\ FitsRight(adv, minFontSize, splitBySpace[2])
             THEN splitBySpace
             ELSE splitAnywhere(adv, original, Len(original) - 1)
        ELSE packed.lines

-----------------------------------------------------------------------------
(* SpecWrap: drawSplitLine applied to bounded right-hand texts and fonts *)

MaxGlyphs == 9

RECURSIVE Rep(_, _)
Rep(c, n) == IF n <= 0 THEN <<>> ELSE Append(Rep(c, n - 1), c)

\* a font of which three letters W fill the column at the smallest size; a
\* font whose letter W is wider than the column at every size; a font in
\* which the ellipsis is that wide as well
Fonts ==
    { [c \in {"i", "W", " ", WideSpace, Ellipsis} |->
          CASE c = "i" -> 50 [] c = "W" -> 100 [] c = " " -> 30 [] c = WideSpace -> 100
            [] c = Ellipsis -> 100],
      [c \in {"i", "W", " ", WideSpace, Ellipsis} |->
          CASE c = "i" -> 50 [] c = "W" -> 400 [] c = " " -> 30 [] c = WideSpace -> 100
            [] c = Ellipsis -> 100],
      [c \in {"i", "W", " ", WideSpace, Ellipsis} |->
          CASE c = "i" -> 50 [] c = "W" -> 400 [] c = " " -> 30 [] c = WideSpace -> 100
            [] c = Ellipsis -> 400] }

\* texts of one run of letters and of two runs around a blank: fitting at the
\* base size, fitting only at a smaller size, needing two lines, needing the
\* truncation
RightTexts ==
    {Rep(c, n) : c \in {"i", "W"}, n \in {0, 1, 2, 3, 4, 6, 7, MaxGlyphs}}
    \cup {Rep("W", a) \o <<b>> \o Rep("i", n) :
            a \in {0, 1, 2, 3}, b \in {" ", WideSpace}, n \in {0, 1, 2, MaxGlyphs \div 2}}

InitWrap ==
    /\ appIdle
    /\ canvasIdle
    /\ pc = "right"
    /\ \E adv \in Fonts, right \in RightTexts : arg = [adv |-> adv, right |-> right]
    /\ res = [font |-> 0, lines |-> <<>>]

\* lines 718-734: nothing to draw for an empty text, else the font search
measureRight ==
    /\ pc = "right"
    /\ LET font == singleLineFont(arg.adv, arg.right, baseFontSize) IN
       IF arg.right = <<>> THEN pc' = "drawn" /\ UNCHANGED res
       ELSE /\ res' = [res EXCEPT !.font = IF font # 0 THEN font ELSE minFontSize]
            /\ pc' = IF font # 0 THEN "single" ELSE "wrap"
    /\ UNCHANGED <<arg, appVars, canvasVars>>

\* lines 736-738
fillSingleLine ==
    /\ pc = "single"
    /\ res' = [res EXCEPT !.lines = <<arg.right>>]
    /\ pc' = "drawn"
    /\ UNCHANGED <<arg, appVars, canvasVars>>

\* lines 740-827
fillWrappedLines ==
    /\ pc = "wrap"
    /\ res' = [res EXCEPT !.lines = wrapRightText(arg.adv, arg.right)]
    /\ pc' = "drawn"
    /\ UNCHANGED <<arg, appVars, canvasVars>>

NextWrap == measureRight \/ fillSingleLine \/ fillWrappedLines

SpecWrap == InitWrap /\ [][NextWrap]_vars

-----------------------------------------------------------------------------
(* SpecKeys: scheduleSortKey applied to two visits and the comparator of the *)
(* sorts applied to the two keys.                                            *)

MaxKeyNames == 2     \* how many of the display names below are tried

KeyDates ==
    { Undefined, <<>>, Date1, Date2,
      <<"2", "0", "2", "5", "/", "0", "4", "/", "1", "5">>,      \* delimited
      <<"0", "2", "0", "2", "5", "0", "4", "1", "5">> }          \* nine digits

KeyTimes ==
    { Undefined, Time0900, Time1000,
      <<"0", "9", "0", "0", "0", "0">>,                          \* six digits
      <<"0", "9", ":", "0", "0">>,                               \* delimited
      <<"0", "0", "9", "0", "0">> }                              \* five digits

KeyNames ==
    << Undefined,
       <<"1", "0", ":", "0", "0", "-", "1", "1", ":", "0", "0">>,
       <<"9", ":", "3", "0">> >>

KeyVisits ==
    {Schedule(NoNum, date, time, KeyNames[n], 0) :
        date \in KeyDates, time \in KeyTimes,
        n \in 1..(IF MaxKeyNames < Len(KeyNames) THEN MaxKeyNames ELSE Len(KeyNames))}

InitKeys ==
    /\ appIdle
    /\ canvasIdle
    /\ pc = "visits"
    /\ \E a \in KeyVisits, b \in KeyVisits : arg = [a |-> a, b |-> b]
    /\ res = [keyA |-> <<>>, keyB |-> <<>>, order |-> 0]

\* const keyA = scheduleSortKey(a); const keyB = scheduleSortKey(b);
deriveKeys ==
    /\ pc = "visits"
    /\ res' = [res EXCEPT !.keyA = scheduleSortKey(arg.a), !.keyB = scheduleSortKey(arg.b)]
    /\ pc' = "keys"
    /\ UNCHANGED <<arg, appVars, canvasVars>>

\* if (keyA < keyB) return -1; if (keyA > keyB) return 1; return 0;
compareKeys ==
    /\ pc = "keys"
    /\ res' = [res EXCEPT !.order = IF StrLess(res.keyA, res.keyB) THEN -1
                                    ELSE IF StrLess(res.keyB, res.keyA) THEN 1 ELSE 0]
    /\ pc' = "compared"
    /\ UNCHANGED <<arg, appVars, canvasVars>>

NextKeys == deriveKeys \/ compareKeys

SpecKeys == InitKeys /\ [][NextKeys]_vars

-----------------------------------------------------------------------------
(* Properties of mergeTicketPayloads (SpecMerge) *)

Range(q) == {q[i] : i \in DOMAIN q}

\* existing.list followed by incoming.list
Concat == (IF arg.existing.null THEN <<>> ELSE arg.existing.list) \o arg.incoming.list

NExisting == IF arg.existing.null THEN 0 ELSE Len(arg.existing.list)

TId(t) == OptTrim(t.ticket_id)

HasId(t) == Truthy(TId(t))

SampleDropped(t) == arg.incoming.is_sample # TRUE /\ t.is_sample = TRUE

Surviving == {i \in DOMAIN Concat : ~SampleDropped(Concat[i])}

Min(S) == CHOOSE x \in S : \A y \in S : x <= y

\* the sub-sequence of q at the indices in K, in order
RECURSIVE Pick(_, _)
Pick(q, K) ==
    IF K = {} THEN <<>>
    ELSE LET m == Min(K) IN <<q[m]>> \o Pick(q, K \ {m})

WithId(q, k) == {n \in DOMAIN q : TId(q[n]) = k}

Merged == res[1].list

\* C1 as stated: a trimmed, non-empty ticket_id common to an existing and an
\* incoming ticket occurs exactly once in the result, on the (first) existing
\* ticket with that id.
C1_ExistingAlwaysWins ==
    pc = "merged" =>
        \A i \in 1..NExisting, j \in (NExisting + 1)..Len(Concat) :
            (HasId(Concat[i]) /\ TId(Concat[i]) = TId(Concat[j])) =>
                LET k == TId(Concat[i]) IN
                /\ Cardinality(WithId(Merged, k)) = 1
                /\ \A n \in WithId(Merged, k) : Merged[n] = Concat[Min(WithId(Concat, k))]

\* C1 amended: the first occurrence, in the order existing-then-incoming, among
\* the tickets that the sample filter does not drop wins: its trimmed,
\* non-empty id occurs exactly once in the result, on that ticket; so an
\* existing ticket that is not dropped as a sample always beats an incoming
\* duplicate.
C1_FirstSurvivorWins ==
    pc = "merged" =>
        \A i \in Surviving :
            HasId(Concat[i]) =>
                LET k == TId(Concat[i])
                    first == Min(WithId(Concat, k) \cap Surviving)
                IN  /\ Cardinality(WithId(Merged, k)) = 1
                    /\ \A n \in WithId(Merged, k) : Merged[n] = Concat[first]
                    /\ (\E e \in 1..NExisting : e \in Surviving /\ TId(Concat[e]) = k)
                          => first <= NExisting

C1_Witness ==
    /\ pc = "merged"
    /\ \E i \in 1..NExisting, j \in (NExisting + 1)..Len(Concat) :
          /\ i \in Surviving /\ j \in Surviving
          /\ HasId(Concat[i])
          /\ TId(Concat[i]) = TId(Concat[j])
          /\ Concat[i] # Concat[j]
          /\ Concat[i] \in Range(Merged)
          /\ Concat[j] \notin Range(Merged)

\* C3: with incoming.is_sample !== true the result holds no ticket with
\* is_sample === true; with incoming.is_sample === true every sample ticket
\* stays unless it repeats the trimmed id of an earlier ticket.
C3_SampleFilter ==
    pc = "merged" =>
        /\ arg.incoming.is_sample # TRUE =>
              \A n \in DOMAIN Merged : Merged[n].is_sample # TRUE
        /\ arg.incoming.is_sample = TRUE =>
              \A i \in DOMAIN Concat :
                  ( /\ Concat[i].is_sample = TRUE
                    /\ (HasId(Concat[i]) =>
                          \A j \in 1..(i - 1) : TId(Concat[j]) # TId(Concat[i])) )
                  => Concat[i] \in Range(Merged)

C3_Witness ==
    /\ pc = "merged"
    /\ arg.incoming.is_sample # TRUE
    /\ \E i \in 1..NExisting : Concat[i].is_sample = TRUE
    /\ \E j \in (NExisting + 1)..Len(Concat) : Concat[j].is_sample = TRUE
    /\ Merged # <<>>

NoRepeat(q) == \A m, n \in DOMAIN q : q[m] = q[n] => m = n

DistinctPresentIds(list) ==
    /\ \A n \in DOMAIN list : Str(list[n].ticket_id) /\ list[n].is_sample # TRUE
    /\ \A m, n \in DOMAIN list : list[m].ticket_id = list[n].ticket_id => m = n

\* C4 as stated: re-importing P (ids present and distinct, no sample) into
\* merge(null, P) gives the same ticket set without duplicates.
C4_IdempotentPresentIds ==
    (pc = "remerged" /\ arg.existing.null /\ DistinctPresentIds(arg.incoming.list)) =>
        /\ Range(res[2].list) = Range(res[1].list)
        /\ NoRepeat(res[2].list)

\* C4 amended: the same, for payloads whose ticket ids are moreover not blank
\* (non-empty after trimming).
C4_IdempotentNonBlankIds ==
    ( /\ pc = "remerged"
      /\ arg.existing.null
      /\ DistinctPresentIds(arg.incoming.list)
      /\ \A n \in DOMAIN arg.incoming.list : HasId(arg.incoming.list[n]) ) =>
        /\ Range(res[2].list) = Range(res[1].list)
        /\ NoRepeat(res[2].list)

C4_Witness ==
    /\ pc = "remerged"
    /\ arg.existing.null
    /\ DistinctPresentIds(arg.incoming.list)
    /\ \A n \in DOMAIN arg.incoming.list : HasId(arg.incoming.list[n])
    /\ Len(arg.incoming.list) = 2
    /\ Len(res[2].list) = 2

\* C5 as stated: the result is existing.list followed by incoming.list without
\* (i) the sample-flagged tickets (incoming.is_sample !== true) and (ii) the
\* tickets whose trimmed non-empty id occurred earlier in that sequence.
C5_FilterOfConcat ==
    pc = "merged" =>
        Merged = Pick(Concat,
                      {i \in DOMAIN Concat :
                          /\ ~SampleDropped(Concat[i])
                          /\ HasId(Concat[i]) =>
                                \A j \in 1..(i - 1) : TId(Concat[j]) # TId(Concat[i])})

\* C5 amended: (ii) removes a ticket only when its trimmed non-empty id occurred
\* earlier on a ticket that rule (i) did not remove.
C5_FilterOfSurvivors ==
    pc = "merged" =>
        Merged = Pick(Concat,
                      {i \in Surviving :
                          HasId(Concat[i]) =>
                              \A j \in Surviving : j < i => TId(Concat[j]) # TId(Concat[i])})

C5_Witness ==
    /\ pc = "merged"
    /\ \E i, j \in DOMAIN Concat :
          /\ i <= NExisting /\ NExisting < j
          /\ Concat[i] = Concat[j]
          /\ ~HasId(Concat[i])
          /\ Cardinality({n \in DOMAIN Merged : Merged[n] = Concat[i]}) = 2
    /\ \E i \in DOMAIN Concat : HasId(Concat[i]) /\ Concat[i] \notin Range(Merged)

-----------------------------------------------------------------------------
(* Properties of the import paths (Spec) *)

\* C2: in every reachable state of App no two tickets of data.list have the
\* same trimmed, non-empty ticket_id.
C2_UniqueTicketIds ==
    pc = "app" =>
        \A m, n \in DOMAIN data.list :
            (Truthy(OptTrim(data.list[m].ticket_id))
             /\ OptTrim(data.list[m].ticket_id) = OptTrim(data.list[n].ticket_id)) => m = n

\* an import whose ticket "a " met the accumulated ticket "a" has been merged
C2_Witness ==
    /\ pc = "app"
    /\ lastImport = "ok"
    /\ rawInput.list = <<TicketA2, TicketB>>
    /\ data.list = <<TicketA, TicketB>>

Messages ==
    {MsgEmpty, MsgUnauthorized, MsgParseFailed, MsgArchiveRead, MsgArchiveNoJson, MsgFileRead}

\* C6: a failed import attempt (paste path or file paths) leaves data as it was
\* and sets error to one non-empty message, so that the next successful import
\* merges into the unchanged payload.
C6_FailedImportKeepsData ==
    [][lastImport' = "failed" => (data' = data /\ error' \in Messages /\ error' # "")]_vars

\* a failed attempt on top of a non-empty accumulated payload
C6_Witness ==
    /\ pc = "app"
    /\ lastImport = "failed"
    /\ error = MsgParseFailed
    /\ Len(data.list) = 2

NonSample(list) == SelectSeq(list, LAMBDA ticket : ticket.is_sample # TRUE)

\* every ticket of `tickets` is in `list`: one ticket per trimmed, non-empty
\* id, and a ticket without such an id as it is
Contains(list, tickets) ==
    \A n \in DOMAIN tickets :
        IF HasId(tickets[n]) THEN Cardinality(WithId(list, TId(tickets[n]))) = 1
        ELSE tickets[n] \in Range(list)

\* a step in which a read of the file ends with its payload merged
FileImported(file) ==
    /\ lastImport' = "ok"
    /\ readers[file] > 0
    /\ readers' = [readers EXCEPT ![file] = @ - 1]

-----------------------------------------------------------------------------
(* Termination of addSegment (SpecAddSegment) *)

\* an iteration pushes a segment of positive height that starts at `current`
\* and advances `current` by that height, not beyond `end`
IterationAdvances ==
    pc = "while" /\ pc' = "while" =>
        LET pushed == res'.newSegments[Len(res'.newSegments)] IN
        /\ Len(res'.newSegments) = Len(res.newSegments) + 1
        /\ pushed.start = res.current
        /\ pushed.height > 0
        /\ res'.current = res.current + pushed.height
        /\ res'.current <= arg.end

\* nothing pushed for end <= start
EmptyZoneEmitsNothing == arg.end <= arg.start => res.newSegments = <<>>

\* C30: every call of addSegment returns; each iteration pushes a segment of
\* positive height and advances `current` by it, also when the alignment to
\* lines lowers the height and when floor(MAX_CANVAS_PIXELS / width) is below
\* lineHeight; a call with end <= start pushes nothing.
C30_AddSegmentTerminates ==
    /\ <>(pc = "returned")
    /\ [][IterationAdvances]_vars
    /\ []EmptyZoneEmitsNothing

\* a call with floor(MAX_CANVAS_PIXELS / width) = 0 has returned after
\* pushing aligned segments of lineHeight and the rest of the zone
C30_Witness ==
    /\ pc = "returned"
    /\ arg.summary.width = 20000000
    /\ arg.alignToLine
    /\ arg.start = 235
    /\ Len(res.newSegments) = 4
    /\ res.newSegments[1].height = lineHeight
    /\ res.newSegments[4].height = MaxSpan - 3 * lineHeight
    /\ res.current = arg.end

-----------------------------------------------------------------------------
(* The planner against the renderer (SpecSegments) *)

ListPositionsAgree ==
    arg.showDetailed =>
        /\ renderCursor(arg).listHeading = arg.sections.listStart
        /\ renderCursor(arg).lastRowEnd = arg.sections.listEnd

\* C29: the renderer's cursor is sections.listStart at the ticket-list
\* heading and sections.listEnd after the last list row (detailed view, the
\* only one that draws the list), and sections.summaryStart at the
\* month-chart heading in both views.
C29_PlannerRendererAgree ==
    /\ ListPositionsAgree
    /\ renderCursor(arg).chartHeading = arg.sections.summaryStart

-----------------------------------------------------------------------------
(* Properties of the accumulated payload and of the inclusion map           *)
(* (SpecInclude)                                                            *)

IsPrefix(short, long) ==
    /\ Len(short) <= Len(long)
    /\ \A n \in DOMAIN short : long[n] = short[n]

\* a step of a successful import: parseAndSet has merged the text in rawInput'
Imported == lastImport' = "ok"

\* the positions of the accumulated list whose tickets a merge with the
\* incoming text keeps: all when the text is a sample payload, else those of
\* the tickets that are not sample-flagged
KeptPositions(list, text) ==
    SelectSeq([n \in DOMAIN list |-> n],
              LAMBDA n : text.is_sample = TRUE \/ list[n].is_sample # TRUE)

KeptTickets(list, text) ==
    [j \in DOMAIN KeptPositions(list, text) |-> list[KeptPositions(list, text)[j]]]

\* C25: a successful import keeps the non-sample tickets already present
\* (all tickets present when the incoming payload is a sample) as a prefix of
\* the new list in their old order; a step that is not a clear of the data
\* removes no non-sample ticket.
C25_ImportsOnlyAppend ==
    [][/\ Imported => IsPrefix(KeptTickets(data.list, rawInput'), data'.list)
       /\ ~IsPrefix(NonSample(data.list), data'.list)
             => /\ data'.null
                /\ includedTicketMap' = EmptyMap
                /\ lastImport' = "none"]_vars

\* an import has appended a ticket behind the ticket that was there, which
\* has the trimmed id of the other incoming ticket
C25_Witness ==
    /\ pc = "app"
    /\ lastImport = "ok"
    /\ rawInput = stringify(Payload(<<TicketA2, TicketB>>, FALSE))
    /\ data.list = <<TicketA, TicketB>>

HasSample(list) == \E n \in DOMAIN list : list[n].is_sample = TRUE

HasNonSample(list) == \E n \in DOMAIN list : list[n].is_sample # TRUE

\* C26: the accumulated payload never holds a sample-flagged ticket together
\* with a ticket that is not sample-flagged.
C26_NeverMixed == ~(HasSample(data.list) /\ HasNonSample(data.list))

Included(list, map, n) ==
    LET ticketKey == getTicketKey(list[n], n - 1)
    IN  ~(ticketKey \in DOMAIN map /\ map[ticketKey] = FALSE)

DistinctKeys ==
    \A m, n \in DOMAIN data.list :
        m # n => getTicketKey(data.list[m], m - 1) # getTicketKey(data.list[n], n - 1)

\* a step of handleTicketIncludedChange
Toggled == data' = data /\ includedTicketMap' # includedTicketMap

ToggleChangesOne ==
    Toggled =>
        Cardinality({n \in DOMAIN data.list :
                        Included(data.list, includedTicketMap', n)
                            # Included(data.list, includedTicketMap, n)}) = 1

\* C27: the tickets of the accumulated payload have pairwise distinct
\* inclusion keys, and a toggle of one card's checkbox changes the inclusion
\* of exactly that ticket.
C27_DistinctKeysToggleOne == []DistinctKeys /\ [][ToggleChangesOne]_vars

\* C28: over a successful import every ticket that stays in the payload
\* keeps its inclusion (an excluded one stays excluded, an included one stays
\* included), and every ticket that enters the payload is included.
C28_InclusionSurvivesImport ==
    [][Imported =>
          LET kept == KeptPositions(data.list, rawInput') IN
          /\ \A j \in DOMAIN kept :
                j \in DOMAIN data'.list
                   => Included(data'.list, includedTicketMap', j)
                         = Included(data.list, includedTicketMap, kept[j])
          /\ \A j \in DOMAIN data'.list :
                j > Len(kept) => Included(data'.list, includedTicketMap', j)]_vars

-----------------------------------------------------------------------------
(* Properties of the association pass (SpecSummary) *)

AllEventRefs ==
    UNION {{EventRef(t, e, arg.tickets[t].event_schedules[e]) :
                e \in DOMAIN arg.tickets[t].event_schedules} : t \in DOMAIN arg.tickets}

RECURSIVE NestedEvents(_)
NestedEvents(lines) ==
    IF lines = <<>> THEN <<>> ELSE Head(lines).events \o NestedEvents(Tail(lines))

Occurrences(q, x) == Cardinality({i \in DOMAIN q : q[i] = x})

Summarized == pc = "summary" /\ ~res.isNull

\* C7: every Event visit of every ticket is placed exactly once, under an
\* entrance line or in leftoverEvents, and nothing else is placed.
C7_EveryEventPlacedOnce ==
    Summarized =>
        LET placed == NestedEvents(res.entranceLines) \o res.leftoverEvents IN
        /\ \A r \in AllEventRefs : Occurrences(placed, r) = 1
        /\ Range(placed) \subseteq AllEventRefs
        /\ Len(placed) = Cardinality(AllEventRefs)

C7_Witness ==
    /\ Summarized
    /\ Len(arg.tickets) = 2
    /\ \E i \in DOMAIN res.entranceLines : Len(res.entranceLines[i].events) = 2
    /\ Len(res.leftoverEvents) = 1

HasEntranceOn(ticket, date) ==
    \E s \in DOMAIN ticket.schedules : ticket.schedules[s].entrance_date = date

\* C8: an Event of ticket T whose date is that of an Entrance visit of T is
\* nested under an Entrance visit of T with that date and is not a leftover;
\* an Event whose date no Entrance visit of T has is a leftover exactly once.
C8_AssociationComplete ==
    Summarized =>
        \A r \in AllEventRefs :
            IF HasEntranceOn(arg.tickets[r.t], r.ev.entrance_date)
            THEN /\ \E i \in DOMAIN res.entranceLines :
                        /\ res.entranceLines[i].t = r.t
                        /\ res.entranceLines[i].schedule.entrance_date = r.ev.entrance_date
                        /\ r \in Range(res.entranceLines[i].events)
                 /\ r \notin Range(res.leftoverEvents)
            ELSE Occurrences(res.leftoverEvents, r) = 1

\* C9: every Event nested under an Entrance visit belongs to the ticket of
\* that Entrance visit and has its date.
C9_NestedUnderOwnTicket ==
    Summarized =>
        \A i \in DOMAIN res.entranceLines :
            \A r \in Range(res.entranceLines[i].events) :
                /\ r.t = res.entranceLines[i].t
                /\ r.ev.entrance_date = res.entranceLines[i].schedule.entrance_date

\* the position of a line's Entrance visit in the order received
Received(line) == <<line.t, line.s>>

Before(p, q) == p[1] < q[1] \/ (p[1] = q[1] /\ p[2] < q[2])

AllEntrances ==
    UNION {{<<t, s>> : s \in DOMAIN arg.tickets[t].schedules} : t \in DOMAIN arg.tickets}

\* the Event visits of the ticket and date of an entrance line
OwnEvents(line) ==
    {r \in AllEventRefs : r.t = line.t /\ r.ev.entrance_date = line.schedule.entrance_date}

\* no earlier Entrance visit of the line's ticket has its date
FirstOfDate(line) ==
    \A s \in 1..(line.s - 1) :
        arg.tickets[line.t].schedules[s].entrance_date # line.schedule.entrance_date

HourColons(name) == {c \in 2..Len(name) : IsColon(name[c]) /\ IsDigit(name[c - 1])}

\* the hour of a display name: the one or two digits before its first such
\* colon, zero-padded
HourOf(name) ==
    LET c == CHOOSE d \in HourColons(name) : \A e \in HourColons(name) : d <= e IN
    IF c > 2 /\ IsDigit(name[c - 2]) THEN <<name[c - 2], name[c - 1]>>
    ELSE <<"0", name[c - 1]>>

\* the Entrance visits of a gate, and those of them of an hour
GateVisits(gate) ==
    {p \in AllEntrances : arg.tickets[p[1]].schedules[p[2]].gate_type = gate}

HourVisits(gate, hour) ==
    {p \in GateVisits(gate) :
        LET name == arg.tickets[p[1]].schedules[p[2]].schedule_name IN
        /\ name # Undefined
        /\ HourColons(name) # {}
        /\ HourOf(name) = hour}

\* C20: every hour row of the gate table counts, per gate, the Entrance
\* visits whose display name's first colon-delimited one- or two-digit number,
\* zero-padded, is that hour, with total = east + west; the totals row counts
\* all Entrance visits per gate, so no hour row exceeds it.
C20_GateHourTable ==
    Summarized =>
        LET rows == res.entranceTable.rows
            totals == rows[Len(bucketDefinitions) + 1]
        IN  /\ Len(rows) = Len(bucketDefinitions) + 1
            /\ [i \in DOMAIN bucketDefinitions |-> bucketDefinitions[i].key]
                  = << <<"0", "9">>, <<"1", "0">>, <<"1", "1">>, <<"1", "2">>, <<"1", "7">> >>
            /\ \A i \in DOMAIN bucketDefinitions :
                  /\ rows[i].east = Cardinality(HourVisits(1, bucketDefinitions[i].key))
                  /\ rows[i].west = Cardinality(HourVisits(2, bucketDefinitions[i].key))
                  /\ rows[i].total = rows[i].east + rows[i].west
                  /\ rows[i].east <= totals.east
                  /\ rows[i].west <= totals.west
            /\ totals.east = Cardinality(GateVisits(1))
            /\ totals.west = Cardinality(GateVisits(2))
            /\ totals.total = totals.east + totals.west

\* one East and one West visit at 9, written "9:00" and "09:00-", and a
\* visit that belongs to no hour row
C20_Witness ==
    /\ Summarized
    /\ res.entranceTable.rows[1] = [label |-> "9h", east |-> 1, west |-> 1, total |-> 2]
    /\ res.entranceTable.rows[Len(bucketDefinitions) + 1].total = 3
    /\ \A i \in 2..Len(bucketDefinitions) : res.entranceTable.rows[i].total = 0

\* text that is neither blank nor the sign-in answer and in which the payload
\* marker is missing or its braces never balance
ExtractionFails(text) ==
    /\ trim(text.chars) # <<>>
    /\ \A i \in DOMAIN text.chars : text.chars[i] # "unauth"
    /\ extractEmbeddedTicketJson(text.chars) = NoSlice

\* a step that ends an import without a payload
ImportFailed == lastImport' = "failed"

\* the failed import is the parse of the pasted text
PasteFailed(text) ==
    /\ rawInput = text
    /\ rawInput' = text
    /\ readers' = readers

\* the failed import is a read of the file
FileFailed(file) ==
    /\ readers[file] > 0
    /\ readers' = [readers EXCEPT ![file] = @ - 1]

\* the messages of a read that delivers no text at all
ReadFailures(file) ==
    IF file.isWebArchive THEN {MsgFileRead, MsgArchiveRead} ELSE {MsgFileRead}

\* C19 as stated: on every input path (pasted text, plain file, web-archive
\* file) a failed embedded extraction is reported with the message of a
\* structural parse failure.
C19_ExtractionFailureSameMessage ==
    [][ImportFailed =>
          /\ \A text \in PasteTexts :
                PasteFailed(text) /\ ExtractionFails(text) => error' = MsgParseFailed
          /\ \A file \in Files :
                FileFailed(file) /\ ExtractionFails(file.text)
                   => error' \in ReadFailures(file) \cup {MsgParseFailed}]_vars

\* C19 amended: a failed embedded extraction is reported with the message of
\* a structural parse failure for pasted text and for a plain file, and with
\* the web archive's own "no ticket JSON" message for a web-archive file.
C19_ExtractionFailureMessage ==
    [][ImportFailed =>
          /\ \A text \in PasteTexts :
                PasteFailed(text) /\ ExtractionFails(text) => error' = MsgParseFailed
          /\ \A file \in Files :
                FileFailed(file) /\ ExtractionFails(file.text)
                   => error' \in ReadFailures(file) \cup
                         {IF file.isWebArchive THEN MsgArchiveNoJson ELSE MsgParseFailed}]_vars

\* a web archive in which no payload was found has been reported
C19_Witness ==
    /\ lastImport = "failed"
    /\ error = MsgArchiveNoJson
    /\ readers = NoReaders

CardsKeepOrder ==
    \A t \in DOMAIN arg.tickets : arg.cards[t].entrance = arg.tickets[t].schedules

\* C18 as stated: the card list of every ticket and the entrance lines of the
\* summary keep the order in which the Entrance visits were received.
C18_EntranceOrderKept ==
    Summarized =>
        /\ CardsKeepOrder
        /\ \A i, j \in DOMAIN res.entranceLines :
              i < j => Before(Received(res.entranceLines[i]), Received(res.entranceLines[j]))

\* C18 amended: the card list keeps the received order; the entrance lines of
\* the summary are all the Entrance visits, each once, in ascending order of
\* their date label, visits with equal labels in the order received.
C18_CardsKeptSummaryByDate ==
    Summarized =>
        /\ CardsKeepOrder
        /\ {Received(res.entranceLines[i]) : i \in DOMAIN res.entranceLines} = AllEntrances
        /\ Len(res.entranceLines) = Cardinality(AllEntrances)
        /\ \A i, j \in DOMAIN res.entranceLines :
              i < j =>
                 /\ ~StrLess(res.entranceLines[j].datePart, res.entranceLines[i].datePart)
                 /\ res.entranceLines[i].datePart = res.entranceLines[j].datePart
                       => Before(Received(res.entranceLines[i]), Received(res.entranceLines[j]))

\* a later visit of a ticket is listed before an earlier-received one, and
\* two visits of one date label stay in the order received
C18_Witness ==
    /\ Summarized
    /\ \E i, j \in DOMAIN res.entranceLines :
          /\ i < j
          /\ res.entranceLines[i].t = res.entranceLines[j].t
          /\ res.entranceLines[i].s > res.entranceLines[j].s
          /\ arg.cards[res.entranceLines[i].t].entrance[1] = res.entranceLines[j].schedule
    /\ \E i, j \in DOMAIN res.entranceLines :
          /\ i < j
          /\ res.entranceLines[i].datePart = res.entranceLines[j].datePart

-----------------------------------------------------------------------------
(* Properties of the segmenter (SpecSegments) *)

InSegmenter == pc \in {"header", "list", "summary", "done"}

\* C10: every segment is at most floor(16,777,216 / width) = 15534 high, so
\* that width x height stays within the pixel budget, in every zone.
C10_SegmentWithinCap ==
    InSegmenter =>
        \A i \in DOMAIN res.newSegments :
            /\ res.newSegments[i].height <= MAX_CANVAS_PIXELS \div arg.width
            /\ res.newSegments[i].height <= 15534
            /\ arg.width * res.newSegments[i].height <= MAX_CANVAS_PIXELS

\* a list zone cut into several segments, the first of them 353 lines high
C10_Witness ==
    /\ pc = "done"
    /\ \E i, j \in DOMAIN res.newSegments :
          /\ i < j
          /\ res.newSegments[i].zone = "list"
          /\ res.newSegments[j].zone = "list"
          /\ res.newSegments[i].height = 353 * lineHeight
    /\ \E i \in DOMAIN res.newSegments : res.newSegments[i].zone = "summary"

RECURSIVE SumHeights(_)
SumHeights(segments) ==
    IF segments = <<>> THEN 0 ELSE Head(segments).height + SumHeights(Tail(segments))

\* C12: the segments of a layout of height H partition [0, H): the first
\* starts at 0, each next one starts where the previous one ends, and the
\* heights sum to H, with the detail flag on or off.
C12_SegmentsPartition ==
    pc = "done" =>
        /\ res.newSegments # <<>>
        /\ res.newSegments[1].start = 0
        /\ \A i \in 1..(Len(res.newSegments) - 1) :
              res.newSegments[i + 1].start = res.newSegments[i].start + res.newSegments[i].height
        /\ SumHeights(res.newSegments) = arg.height

ListSegments == {i \in DOMAIN res.newSegments : res.newSegments[i].zone = "list"}

\* C13: when the list zone needs more than one segment, every row drawn in
\* the list zone, [y, y + lineHeight), lies inside a single segment.
C13_NoRowBisected ==
    (pc = "done" /\ Cardinality(ListSegments) > 1) =>
        \A y \in listRows(arg) :
            \E i \in DOMAIN res.newSegments :
                /\ res.newSegments[i].start <= y
                /\ y + arg.lineHeight <= res.newSegments[i].start + res.newSegments[i].height

-----------------------------------------------------------------------------
(* Properties of the raster surfaces and of save/share (SpecCanvas) *)

WithinCap(canvas) == canvas.width * canvas.height <= MAX_CANVAS_PIXELS

\* C11: every raster surface the program sizes has pixelWidth x pixelHeight
\* <= 16,777,216: the canvas of each on-screen segment and the offscreen
\* canvas that getCanvasBlob creates for save/share.
C11_EverySurfaceWithinCap ==
    InCanvas =>
        /\ \A i \in DOMAIN res.canvases : WithinCap(res.canvases[i])
        /\ \A i \in DOMAIN ops : WithinCap(ops[i].offscreen)

InFlightOps(kind) == {i \in DOMAIN ops : ops[i].kind = kind}

\* C15: at every moment at most one save and at most one share operation is
\* in flight, under every interleaving of clicks and completions.
C15_OneSaveOneShare ==
    InCanvas =>
        /\ Cardinality(InFlightOps("save")) <= 1
        /\ Cardinality(InFlightOps("share")) <= 1

Pending(kind, inst) == \E i \in DOMAIN ops : ops[i].kind = kind /\ ops[i].instance = inst

\* every operation that is started finishes
OperationsFinish ==
    \A kind \in {"save", "share"}, inst \in 1..MaxMounts :
        Pending(kind, inst) ~> ~Pending(kind, inst)

\* while the component is on screen, a busy flag is set exactly while an
\* operation of its kind is in flight
FlagsTrackOperations ==
    (InCanvas /\ pc # "unmounted") =>
        /\ isSavingImage <=> InFlightOps("save") # {}
        /\ isSharing <=> InFlightOps("share") # {}

\* in the step in which the last operation of a kind finishes, the busy flag
\* of that kind is reset
FinishResetsFlag ==
    /\ (InFlightOps("save") # {} /\ InFlightOps("save")' = {}) => ~isSavingImage'
    /\ (InFlightOps("share") # {} /\ InFlightOps("share")' = {}) => ~isSharing'

\* C22: every save or share operation that is started finishes, by success
\* or by failure; when it finishes its busy flag is reset, and the flag is
\* set exactly while the operation is in flight.
C22_OperationsFinishAndReset ==
    /\ OperationsFinish
    /\ []FlagsTrackOperations
    /\ [][FinishResetsFlag]_vars

-----------------------------------------------------------------------------
(* Properties of the wrap engine (SpecWrap) *)

LineFits(line) == FitsRight(arg.adv, res.font, line)

\* C14: every line drawSplitLine/wrapRightText returns measures <= maxWidth at
\* the font size finally chosen; the only exception is that not even a lone
\* ellipsis fits, and then the second line returned is empty.
C14_TextFit ==
    (pc = "drawn" /\ arg.right # <<>>) =>
        \/ \A i \in DOMAIN res.lines : LineFits(res.lines[i])
        \/ /\ ~LineFits(<<Ellipsis>>)
           /\ Len(res.lines) = 2
           /\ res.lines[2] = <<>>

\* the text was wrapped: no font size down to the floor takes it on one line
Wrapped == pc = "drawn" /\ Len(res.lines) = 2

\* the split at the blank closest to the middle exists and both halves fit
MidSpaceSplitFits ==
    LET split == findMidSpaceSplit(arg.right) IN
    /\ split # <<>>
    /\ FitsRight(arg.adv, minFontSize, split[1])
    /\ FitsRight(arg.adv, minFontSize, split[2])

\* C21: a text that fits no single line down to the floor font size is split
\* at the blank closest to its middle whenever both halves fit the column;
\* the greedy packing of characters is used only otherwise.
C21_MidSpaceSplitFirst ==
    (Wrapped /\ MidSpaceSplitFits) => res.lines = findMidSpaceSplit(arg.right)

-----------------------------------------------------------------------------
(* Properties of scheduleSortKey (SpecKeys) *)

AllDigits(t, n) == Str(t) /\ Len(t) = n /\ \A i \in DOMAIN t : IsDigit(t[i])

WellFormed(visit) == AllDigits(visit.entrance_date, 8) /\ AllDigits(visit.start_time, 4)

\* no time can be taken from the start time or from the display name
NoTime(visit) == ~AllDigits(visit.start_time, 4) /\ extractDigits(visit.schedule_name) = <<>>

\* C16: a visit with a well-formed 8-digit date and 4-digit start time sorts
\* before a visit whose date is missing or malformed, and before a visit of
\* the same date whose time is missing or malformed.
C16_MalformedSortsLast ==
    ( /\ pc = "compared"
      /\ WellFormed(arg.a)
      /\ \/ ~AllDigits(arg.b.entrance_date, 8)
         \/ (arg.b.entrance_date = arg.a.entrance_date /\ NoTime(arg.b)) )
    => (StrLess(res.keyA, res.keyB) /\ res.order = -1)

\* C17: the key of every visit is 12 characters long, an 8-character date
\* part followed by a 4-character time part.
C17_FixedWidthKey ==
    pc \in {"keys", "compared"} => (Len(res.keyA) = 12 /\ Len(res.keyB) = 12)

=============================================================================
